---------------------------- MODULE Spec2Model ----------------------------
(***************************************************************************)
(* obs-harness: the real-time streaming pipeline and its concurrency       *)
(* control.                                                                *)
(*                                                                         *)
(*   Spec          the generation coordinator (app.py): speak, chat and    *)
(*                 stop requests around generation_locks and               *)
(*                 active_generations, and the frames they broadcast.      *)
(*   SpecStreamer  one TTSStreamer (tts_pipeline.py): stream(), the        *)
(*                 receive task, cancel(), against an upstream TTS client  *)
(*                 (elevenlabs_ws.py / cartesia_ws.py).                    *)
(*   SpecWords     ElevenLabs character alignment to word timing           *)
(*                 (elevenlabs_ws.py) and the order in which words and     *)
(*                 audio reach the overlay.                                *)
(*   SpecMemory    conversation memory (app.py): what a chat records, the  *)
(*                 pending entry of an interrupted message and its         *)
(*                 reconciliation on stream_stopped, and the clearing of   *)
(*                 a character's memory.                                   *)
(*   SpecRegistry  the connection registry (app.py): overlay sessions and  *)
(*                 the requests that write frames to them.                 *)
(*   SpecLiveness  the overlay sessions and the liveness task (app.py).    *)
(*   SpecSanta     wish sessions (santa_session.py): redemptions, turns,   *)
(*                 waits and the dashboard's overrides.                    *)
(*   SpecFollowup  the wait for the redeemer's followup reply              *)
(*                 (santa_session.py): timeout and debounce.               *)
(*   SpecSpeech    the speech lock of the wish sessions                    *)
(*                 (santa_session.py).                                     *)
(*   SpecRetry     the retry loop of the OpenRouter client                 *)
(*                 (openrouter.py).                                        *)
(*   SpecCartesia  the receive loop of the Cartesia client                 *)
(*                 (tts/cartesia_ws.py).                                   *)
(*   SpecCartesiaLive  the same, with the consumer of the chunk queue      *)
(*                 taking what is queued.                                  *)
(*   SpecSantaLive the wish sessions, with every running task making its   *)
(*                 next step.                                              *)
(*   SpecVoice     a voice speed on its way from the settings to the       *)
(*                 upstream (tts/provider.py, tts/cartesia_ws.py).         *)
(*   SpecUpdate    concurrent updates of a character (app.py).             *)
(*                                                                         *)
(* Every specification leaves the variables of the other parts at their    *)
(* initial values.                                                         *)
(***************************************************************************)
EXTENDS Integers, Sequences, FiniteSets, TLC

(***************************************************************************)
(* Bounds of the model.                                                    *)
(***************************************************************************)
\* chunks the upstream TTS session delivers in one generation
MaxChunks == 2
\* tokens the token source (LLM stream) yields in one generation
MaxTokens == 2
\* characters of the text one ElevenLabs session aligns
MaxChars == 3
\* speak / chat / stop requests the server receives
MaxRequests == 3
\* chat requests whose conversation is recorded
MaxChats == 2
\* DELETE /api/characters/{name}/memory requests
MaxClears == 1
\* overlay sessions that connect
MaxSessions == 2
\* speak / stop requests that write to the overlays
MaxCallers == 2
\* rounds of the liveness task
MaxTicks == 3
\* redemptions and dashboard requests of the wish sessions
MaxWishers == 2
\* entries of a wish session's conversation
MaxEntries == 6
\* chat messages waiting in the wish session's queue
MaxMessages == 1
\* the largest value the setting max_followups takes
MaxFollowups == 1
\* chat messages the redeemer sends during one followup wait
MaxReplies == 3
\* seconds of the event loop's clock during one followup wait
MaxClock == 6
\* the largest value the setting debounce_seconds takes
MaxDebounce == 2
\* the largest value the setting response_timeout takes
MaxTimeout == 3
\* concurrent callers of _speak
MaxSpeakers == 3
\* calls of stream_chat or chat in a run, tokens one call yields
MaxCalls == 2
MaxYielded == 2
\* frames the Cartesia socket delivers, times in a timestamps frame
MaxFrames == 3
\* calls of close() on one Cartesia client
MaxCloses == 2
MaxWords == 2
\* the largest speed, in tenths, a configuration carries
MaxSpeed == 20
\* concurrent update requests for one character, values of its updated_at
MaxUpdaters == 3
MaxStamp == 3

VARIABLES
    \* ---- TTSStreamer (tts_pipeline.py) ----
    streamer,         \* the TTSStreamer object and the locals of stream()
    rx,               \* state of the task running _receive_audio()
    cancel_pc,        \* position of the task running cancel()
    hooks,            \* the hook invocations towards the overlay, in order
    faulted,          \* a failure other than cancellation was injected
    \* ---- upstream TTS client (ElevenLabsWSClient / CartesiaWSClient) ----
    client,           \* the client object
    chunk_queue,      \* self._chunk_queue
    \* ---- ElevenLabs word reconstruction and its way to the overlay ----
    el,               \* the upstream alignment stream and ElevenLabsWSClient
    el_queue,         \* self._chunk_queue with the chunks' content
    frames,           \* the frames written to the overlay, in order
    spoken_text,      \* TTSStreamer._spoken_text, as characters
    \* ---- generation coordinator (app.py) ----
    req,                 \* the request handlers: their locals and position
    generation_locks,    \* generation_locks: one asyncio.Lock per character
    active_generations,  \* active_generations: character -> generation
    gen,                 \* the generation object each speak / chat creates
    sent,                \* per character, the frames broadcast to its overlays
    \* ---- conversation memory (app.py) ----
    chat,                  \* the chat handlers: pipeline, locals, position
    conversation_memory,   \* conversation_memory: character -> messages
    db,                    \* the ConversationMessage rows, by id
    pending_interrupted,   \* pending_interrupted: character -> entry
    sockets,               \* the overlay websocket handlers
    persist_memory,        \* Character.persist_memory, by character
    clears,                \* the clear_character_memory handlers
    \* ---- connection registry (app.py) ----
    connections,      \* manager._connections: character -> sessions
    channel_state,    \* manager._channel_state: character -> flags
    last_pong,        \* manager._last_pong: session -> time
    websockets,       \* the overlays' connections
    now,              \* time.time(), in seconds
    ping,             \* the task running ping_all_connections
    callers,          \* the requests that write to the overlays
    \* ---- wish sessions (santa_session.py) ----
    wish_session,     \* self._session
    wish_cancelled,   \* self._cancelled
    wish_lock,        \* self._lock: the wisher that holds it, or 0
    message_queue,    \* self._message_queue, as its length
    max_followups,    \* self.max_followups
    santa_rows,       \* the SantaSession rows, by session id
    wishers,          \* the redemption handlers and dashboard requests
    reward_enabled,   \* the channel-point reward can be redeemed (Twitch)
    \* ---- the followup waiter in time (santa_session.py) ----
    waiter,            \* the locals of _wait_for_followup and its position
    reply_queue,       \* self._message_queue with the messages' content
    loop_time,         \* asyncio.get_event_loop().time(), in seconds
    debounce_seconds,  \* self.debounce_seconds
    response_timeout,  \* self.response_timeout
    replies,           \* the redeemer's messages so far, with their times
    \* ---- the speech lock (santa_session.py) ----
    speech_lock,       \* self._speech_lock: held or not, and who waits
    speakers,          \* the tasks that call _speak
    \* ---- the OpenRouter client (openrouter.py) ----
    llm_call,          \* the running call of stream_chat or chat
    llm_calls,         \* calls made so far
    \* ---- the Cartesia client (tts/cartesia_ws.py) ----
    ct,                \* _receive_loop: its place, pending_audio, pending_words
    ct_queue,          \* self._chunk_queue with the chunks' content
    ct_frames,         \* the frames the socket has delivered
    ct_out,            \* what iter_audio_with_timing has taken
    \* ---- voice settings (tts/provider.py) ----
    voice,             \* one generation's provider and speed on the way upstream
    \* ---- character update (app.py) ----
    character_row,     \* the character in the database: updated_at, who wrote it
    updaters,          \* the update requests
    utcnow             \* datetime.utcnow()

streamerVars == <<streamer, rx, cancel_pc, hooks, faulted, client, chunk_queue>>
wordVars == <<el, el_queue, frames, spoken_text>>

coordVars == <<req, generation_locks, active_generations, gen, sent>>

memoryVars ==
    <<chat, conversation_memory, db, pending_interrupted, sockets,
      persist_memory, clears>>

registryVars ==
    <<connections, channel_state, last_pong, websockets, now, ping, callers>>

santaVars ==
    <<wish_session, wish_cancelled, wish_lock, message_queue, max_followups,
      santa_rows, wishers, reward_enabled>>

followupVars ==
    <<waiter, reply_queue, loop_time, debounce_seconds, response_timeout,
      replies>>

speechVars ==
    <<speech_lock, speakers>>

retryVars ==
    <<llm_call, llm_calls>>

cartesiaVars ==
    <<ct, ct_queue, ct_frames, ct_out>>

voiceVars ==
    <<voice>>

updateVars ==
    <<character_row, updaters, utcnow>>

vars ==
    <<streamerVars,
      wordVars,
      coordVars,
      memoryVars,
      registryVars,
      santaVars,
      followupVars,
      speechVars,
      retryVars,
      cartesiaVars,
      voiceVars,
      updateVars>>

\* what the actions of each part leave alone
nonStreamerVars ==
    <<wordVars,
      coordVars,
      memoryVars,
      registryVars,
      santaVars,
      followupVars,
      speechVars,
      retryVars,
      cartesiaVars,
      voiceVars,
      updateVars>>
nonWordVars ==
    <<streamerVars,
      coordVars,
      memoryVars,
      registryVars,
      santaVars,
      followupVars,
      speechVars,
      retryVars,
      cartesiaVars,
      voiceVars,
      updateVars>>
nonCoordVars ==
    <<streamerVars,
      wordVars,
      memoryVars,
      registryVars,
      santaVars,
      followupVars,
      speechVars,
      retryVars,
      cartesiaVars,
      voiceVars,
      updateVars>>
nonMemoryVars ==
    <<streamerVars,
      wordVars,
      coordVars,
      registryVars,
      santaVars,
      followupVars,
      speechVars,
      retryVars,
      cartesiaVars,
      voiceVars,
      updateVars>>
nonRegistryVars ==
    <<streamerVars,
      wordVars,
      coordVars,
      memoryVars,
      santaVars,
      followupVars,
      speechVars,
      retryVars,
      cartesiaVars,
      voiceVars,
      updateVars>>
nonSantaVars ==
    <<streamerVars,
      wordVars,
      coordVars,
      memoryVars,
      registryVars,
      followupVars,
      speechVars,
      retryVars,
      cartesiaVars,
      voiceVars,
      updateVars>>
nonFollowupVars ==
    <<streamerVars,
      wordVars,
      coordVars,
      memoryVars,
      registryVars,
      santaVars,
      speechVars,
      retryVars,
      cartesiaVars,
      voiceVars,
      updateVars>>
nonSpeechVars ==
    <<streamerVars,
      wordVars,
      coordVars,
      memoryVars,
      registryVars,
      santaVars,
      followupVars,
      retryVars,
      cartesiaVars,
      voiceVars,
      updateVars>>
nonRetryVars ==
    <<streamerVars,
      wordVars,
      coordVars,
      memoryVars,
      registryVars,
      santaVars,
      followupVars,
      speechVars,
      cartesiaVars,
      voiceVars,
      updateVars>>
nonCartesiaVars ==
    <<streamerVars,
      wordVars,
      coordVars,
      memoryVars,
      registryVars,
      santaVars,
      followupVars,
      speechVars,
      retryVars,
      voiceVars,
      updateVars>>
nonVoiceVars ==
    <<streamerVars,
      wordVars,
      coordVars,
      memoryVars,
      registryVars,
      santaVars,
      followupVars,
      speechVars,
      retryVars,
      cartesiaVars,
      updateVars>>
nonUpdateVars ==
    <<streamerVars,
      wordVars,
      coordVars,
      memoryVars,
      registryVars,
      santaVars,
      followupVars,
      speechVars,
      retryVars,
      cartesiaVars,
      voiceVars>>

(***************************************************************************)
(* TTSStreamer                                                             *)
(***************************************************************************)
\* AudioChunkWithTiming, reduced to whether it carries words and audio
ChunkKinds ==
    { [end |-> FALSE, words |-> w, audio |-> a] : w \in BOOLEAN, a \in BOOLEAN }
        \ { [end |-> FALSE, words |-> FALSE, audio |-> FALSE] }

\* the None that ends iter_audio_with_timing()
EndMarker == [end |-> TRUE, words |-> FALSE, audio |-> FALSE]

\* ElevenLabsWSClient.__init__ / CartesiaWSClient.__init__
NewClient ==
    [ ws           |-> "none",     \* self._ws: "none" | "open" | "closed"
      closed       |-> FALSE,      \* self._closed
      loop_failed  |-> FALSE,      \* the _receive_loop task ended by raising
      ended        |-> FALSE,      \* the _receive_loop task has ended
      produced     |-> 0,          \* chunks received from upstream so far
      input_closed |-> FALSE ]     \* close_input() was sent

\* TTSStreamer.__init__ and the first lines of stream()
NewStreamer(st, src) ==
    [ show_text     |-> st,        \* self._show_text
      source        |-> src,       \* "str": a string; "iter": a token iterator
      pc            |-> "start",   \* position of the task running stream()
      ret           |-> "none",    \* where a pending upstream send resumes
      text_started  |-> FALSE,
      audio_started |-> FALSE,
      exc           |-> FALSE,     \* an exception is propagating
      cancelled     |-> FALSE,     \* self._cancelled
      tts_client    |-> FALSE,     \* self._tts_client is not None
      receive_task  |-> FALSE,     \* self._receive_task is not None
      spoken_text   |-> 0,         \* self._spoken_text, as a number of words
      full_text     |-> 0 ]        \* tokens forwarded to the TTS session

StreamerInit ==
    /\ streamer \in { NewStreamer(st, src) :
                        st \in BOOLEAN, src \in {"str", "iter"} }
    /\ rx = "unborn"
    /\ cancel_pc = "idle"
    /\ hooks = << >>
    /\ faulted = FALSE
    /\ client = NewClient
    /\ chunk_queue = << >>

\* stream() step 1: text-start first, when captions are requested
StreamTextStart ==
    /\ streamer.pc = "start"
    /\ IF streamer.show_text
         THEN /\ hooks' = Append(hooks, "text_start")
              /\ streamer' = [streamer EXCEPT !.text_started = TRUE,
                                              !.pc = "create"]
         ELSE /\ streamer' = [streamer EXCEPT !.pc = "create"]
              /\ UNCHANGED hooks
    /\ UNCHANGED <<rx, cancel_pc, faulted, client, chunk_queue>>
    /\ UNCHANGED nonStreamerVars

\* stream() step 2a: create_tts_client(); a settings error raises before the
\* inner try is entered
StreamCreateClient ==
    /\ streamer.pc = "create"
    /\ \/ /\ streamer' = [streamer EXCEPT !.tts_client = TRUE,
                                          !.pc = "connect"]
          /\ UNCHANGED faulted
       \/ /\ streamer' = [streamer EXCEPT !.pc = "except"]
          /\ faulted' = TRUE
    /\ UNCHANGED <<rx, cancel_pc, hooks, client, chunk_queue>>
    /\ UNCHANGED nonStreamerVars

\* stream() step 2b: await connect(); the client opens the socket and starts
\* its _receive_loop, or raises after its retries
StreamConnect ==
    /\ streamer.pc = "connect"
    /\ \/ /\ client' = [client EXCEPT !.ws = "open"]
          /\ streamer' = [streamer EXCEPT !.pc = "audio_start"]
          /\ UNCHANGED faulted
       \/ /\ streamer' = [streamer EXCEPT !.exc = TRUE, !.pc = "finally"]
          /\ faulted' = TRUE
          /\ UNCHANGED client
    /\ UNCHANGED <<rx, cancel_pc, hooks, chunk_queue>>
    /\ UNCHANGED nonStreamerVars

\* stream() step 3: await the audio-start hook
StreamAudioStart ==
    /\ streamer.pc = "audio_start"
    /\ hooks' = Append(hooks, "audio_start")
    /\ streamer' = [streamer EXCEPT !.pc = "spawn"]
    /\ UNCHANGED <<rx, cancel_pc, faulted, client, chunk_queue>>
    /\ UNCHANGED nonStreamerVars

\* stream() step 4: the hook returned; create the receive task
StreamSpawnReceive ==
    /\ streamer.pc = "spawn"
    /\ streamer' = [streamer EXCEPT
                      !.audio_started = TRUE,
                      !.receive_task = TRUE,
                      !.pc = IF streamer.source = "str" THEN "send"
                                                        ELSE "next_token"]
    /\ rx' = "waiting"
    /\ UNCHANGED <<cancel_pc, hooks, faulted, client, chunk_queue>>
    /\ UNCHANGED nonStreamerVars

\* send_text() / close_input() on streamer s: ws.send on a socket that is
\* already closed raises ConnectionClosed; otherwise the send is in flight
BeginSend(s, resume) ==
    IF client.ws = "open"
      THEN [s EXCEPT !.pc = "sending", !.ret = resume]
      ELSE [s EXCEPT !.pc = "finally", !.exc = TRUE]

\* stream() step 5, string source: one send_text, whatever the cancel flag
StreamSendText ==
    /\ streamer.pc = "send"
    /\ streamer' = BeginSend([streamer EXCEPT !.full_text = 1], "close_input")
    /\ UNCHANGED <<rx, cancel_pc, hooks, faulted, client, chunk_queue>>
    /\ UNCHANGED nonStreamerVars

\* stream() step 5, token source: one turn of the async for
StreamNextToken ==
    /\ streamer.pc = "next_token"
    /\ \/ \* the source yields a token
          /\ streamer.full_text < MaxTokens
          /\ streamer' =
               IF streamer.cancelled
                 THEN [streamer EXCEPT !.pc = "close_input"]
                 ELSE BeginSend([streamer EXCEPT !.full_text = @ + 1],
                                "next_token")
          /\ UNCHANGED faulted
       \/ \* the source is exhausted
          /\ streamer' = [streamer EXCEPT !.pc = "close_input"]
          /\ UNCHANGED faulted
       \/ \* the source raises
          /\ streamer' = [streamer EXCEPT !.exc = TRUE, !.pc = "finally"]
          /\ faulted' = TRUE
    /\ UNCHANGED <<rx, cancel_pc, hooks, client, chunk_queue>>
    /\ UNCHANGED nonStreamerVars

\* a send in flight ends: it completes, or fails on a network error, or (the
\* socket having been closed meanwhile) ends in ConnectionClosed
StreamSendDone ==
    /\ streamer.pc = "sending"
    /\ \/ /\ streamer' = [streamer EXCEPT !.pc = streamer.ret, !.ret = "none"]
          /\ client' = [client EXCEPT
                          !.input_closed = @ \/ streamer.ret = "await_receive"]
          /\ UNCHANGED faulted
       \/ /\ client.ws = "open"
          /\ streamer' = [streamer EXCEPT !.exc = TRUE, !.pc = "finally",
                                          !.ret = "none"]
          /\ faulted' = TRUE
          /\ UNCHANGED client
       \/ /\ client.ws # "open"
          /\ streamer' = [streamer EXCEPT !.exc = TRUE, !.pc = "finally",
                                          !.ret = "none"]
          /\ UNCHANGED <<faulted, client>>
    /\ UNCHANGED <<rx, cancel_pc, hooks, chunk_queue>>
    /\ UNCHANGED nonStreamerVars

\* stream() step 6: close the TTS input unless cancelled
StreamCloseInput ==
    /\ streamer.pc = "close_input"
    /\ streamer' = IF streamer.cancelled
                     THEN [streamer EXCEPT !.pc = "finally"]
                     ELSE BeginSend(streamer, "await_receive")
    /\ UNCHANGED <<rx, cancel_pc, hooks, faulted, client, chunk_queue>>
    /\ UNCHANGED nonStreamerVars

\* stream() step 6: await self._receive_task; a task that raised re-raises here
StreamAwaitReceive ==
    /\ streamer.pc = "await_receive"
    /\ rx \in {"done", "failed"}
    /\ streamer' = [streamer EXCEPT !.exc = (rx = "failed"), !.pc = "finally"]
    /\ UNCHANGED <<rx, cancel_pc, hooks, faulted, client, chunk_queue>>
    /\ UNCHANGED nonStreamerVars

\* ElevenLabsWSClient.close() / CartesiaWSClient.close() up to its first
\* await: the flag, and the cancellation of the client's receive loop
ClientClose(c) == [c EXCEPT !.closed = TRUE, !.ended = TRUE]

\* close(), after the receive loop was awaited: the socket is closed
ClientCloseSocket(c) == [c EXCEPT !.ws = IF @ = "open" THEN "closed" ELSE @]

\* the inner finally: await self._tts_client.close(); close() re-raises the
\* error of a receive loop that failed
StreamFinallyClose ==
    /\ streamer.pc = "finally"
    /\ IF client.loop_failed
         THEN /\ client' = ClientClose(client)
              /\ streamer' = [streamer EXCEPT !.exc = TRUE, !.pc = "except"]
         ELSE /\ client' = ClientCloseSocket(ClientClose(client))
              /\ streamer' = [streamer EXCEPT !.pc = "finally_reset"]
    /\ UNCHANGED <<rx, cancel_pc, hooks, faulted, chunk_queue>>
    /\ UNCHANGED nonStreamerVars

\* the inner finally, after close() returned
StreamFinallyReset ==
    /\ streamer.pc = "finally_reset"
    /\ streamer' = [streamer EXCEPT
                      !.tts_client = FALSE,
                      !.receive_task = FALSE,
                      !.pc = IF streamer.exc THEN "except" ELSE "audio_end"]
    /\ UNCHANGED <<rx, cancel_pc, hooks, faulted, client, chunk_queue>>
    /\ UNCHANGED nonStreamerVars

\* stream() step 7: audio-end
StreamAudioEnd ==
    /\ streamer.pc = "audio_end"
    /\ hooks' = Append(hooks, "audio_end")
    /\ streamer' = [streamer EXCEPT !.audio_started = FALSE, !.pc = "text_end"]
    /\ UNCHANGED <<rx, cancel_pc, faulted, client, chunk_queue>>
    /\ UNCHANGED nonStreamerVars

\* stream() step 7: text-end when captions are requested, then return
StreamTextEnd ==
    /\ streamer.pc = "text_end"
    /\ IF streamer.show_text
         THEN /\ hooks' = Append(hooks, "text_end")
              /\ streamer' = [streamer EXCEPT !.text_started = FALSE,
                                              !.pc = "returned"]
         ELSE /\ streamer' = [streamer EXCEPT !.pc = "returned"]
              /\ UNCHANGED hooks
    /\ UNCHANGED <<rx, cancel_pc, faulted, client, chunk_queue>>
    /\ UNCHANGED nonStreamerVars

\* a faulty variant of CleanupHooks: the except block ends the audio stream
\* only
CleanupHooksAudioOnly(s) ==
    IF s.audio_started THEN <<"audio_end">> ELSE << >>

\* the hooks the except block of stream() invokes
CleanupHooks(s) ==
    (IF s.audio_started THEN <<"audio_end">> ELSE << >>)
        \o (IF s.text_started THEN <<"text_end">> ELSE << >>)

\* except Exception: cleanup, then re-raise
StreamExcept ==
    /\ streamer.pc = "except"
    /\ hooks' = hooks \o CleanupHooks(streamer)
    /\ streamer' = [streamer EXCEPT !.pc = "raised"]
    /\ UNCHANGED <<rx, cancel_pc, faulted, client, chunk_queue>>
    /\ UNCHANGED nonStreamerVars

(***************************************************************************)
(* TTSStreamer._receive_audio, run as self._receive_task                   *)
(***************************************************************************)
\* a faulty variant of WordTimingHooks: word timing is sent whether or not
\* captions are requested
WordTimingHooksAlways(s, chunk) ==
    IF chunk.words THEN <<"word_timing">> ELSE << >>

\* the word-timing hook is invoked only when captions are requested
WordTimingHooks(s, chunk) ==
    IF chunk.words /\ s.show_text THEN <<"word_timing">> ELSE << >>

\* one turn of the async for: take a chunk, stop on the terminal marker or on
\* the cancel flag, else accumulate the words and send word timing BEFORE
\* the audio. Without captions nothing is awaited between the words and the
\* audio hook.
RxTake ==
    /\ rx = "waiting"
    /\ chunk_queue # << >>
    /\ chunk_queue' = Tail(chunk_queue)
    /\ LET chunk == Head(chunk_queue) IN
         IF chunk.end \/ streamer.cancelled
           THEN /\ rx' = "done"
                /\ UNCHANGED <<streamer, hooks>>
           ELSE /\ streamer' = [streamer EXCEPT
                       !.spoken_text = IF chunk.words THEN @ + 1 ELSE @]
                /\ IF WordTimingHooks(streamer, chunk) # << >> /\ chunk.audio
                     THEN /\ hooks' = hooks \o WordTimingHooks(streamer, chunk)
                          /\ rx' = "audio"
                     ELSE /\ hooks' = hooks \o WordTimingHooks(streamer, chunk)
                                 \o (IF chunk.audio THEN <<"audio_chunk">>
                                                    ELSE << >>)
                          /\ rx' = "waiting"
    /\ UNCHANGED <<cancel_pc, faulted, client>>
    /\ UNCHANGED nonStreamerVars

\* the word-timing hook returned: send the audio of the chunk
RxAudio ==
    /\ rx = "audio"
    /\ hooks' = Append(hooks, "audio_chunk")
    /\ rx' = "waiting"
    /\ UNCHANGED <<streamer, cancel_pc, faulted, client, chunk_queue>>
    /\ UNCHANGED nonStreamerVars

\* a hook raises: the exception ends the task and waits for stream() to
\* await it
RxHookRaises ==
    /\ rx = "audio"
    /\ rx' = "failed"
    /\ faulted' = TRUE
    /\ UNCHANGED <<streamer, cancel_pc, hooks, client, chunk_queue>>
    /\ UNCHANGED nonStreamerVars

(***************************************************************************)
(* The upstream TTS client's _receive_loop                                 *)
(***************************************************************************)
\* a message with audio and/or alignment arrives and is queued
ProviderChunk ==
    /\ client.ws = "open" /\ ~client.closed /\ ~client.ended
    /\ streamer.full_text > 0
    /\ client.produced < MaxChunks
    /\ \E chunk \in ChunkKinds : chunk_queue' = Append(chunk_queue, chunk)
    /\ client' = [client EXCEPT !.produced = @ + 1]
    /\ UNCHANGED <<streamer, rx, cancel_pc, hooks, faulted>>
    /\ UNCHANGED nonStreamerVars

\* the terminal message (isFinal / done) arrives after close_input()
ProviderFinal ==
    /\ client.ws = "open" /\ ~client.closed /\ ~client.ended
    /\ client.input_closed
    /\ chunk_queue' = Append(chunk_queue, EndMarker)
    /\ client' = [client EXCEPT !.ended = TRUE]
    /\ UNCHANGED <<streamer, rx, cancel_pc, hooks, faulted>>
    /\ UNCHANGED nonStreamerVars

\* the loop fails (connection error, upstream error frame): it queues None
\* and raises the provider's error inside its task
ProviderLoopError ==
    /\ client.ws = "open" /\ ~client.closed /\ ~client.ended
    /\ chunk_queue' = Append(chunk_queue, EndMarker)
    /\ client' = [client EXCEPT !.ended = TRUE, !.loop_failed = TRUE]
    /\ faulted' = TRUE
    /\ UNCHANGED <<streamer, rx, cancel_pc, hooks>>
    /\ UNCHANGED nonStreamerVars

(***************************************************************************)
(* TTSStreamer.cancel()                                                    *)
(***************************************************************************)
\* cancel() up to its first await: the flag, then close() on the client if
\* there is one
CancelBegin ==
    /\ cancel_pc = "idle"
    /\ streamer.pc \notin {"returned", "raised"}
    /\ streamer' = [streamer EXCEPT !.cancelled = TRUE]
    /\ IF streamer.tts_client
         THEN /\ client' = ClientClose(client)
              /\ cancel_pc' = "closing"
         ELSE /\ cancel_pc' = "task"
              /\ UNCHANGED client
    /\ UNCHANGED <<rx, hooks, faulted, chunk_queue>>
    /\ UNCHANGED nonStreamerVars

\* close() resumes: it re-raises the error of a failed receive loop (and
\* cancel() ends there), else closes the socket
CancelCloseSocket ==
    /\ cancel_pc = "closing"
    /\ IF client.loop_failed
         THEN /\ cancel_pc' = "raised"
              /\ UNCHANGED client
         ELSE /\ cancel_pc' = "task"
              /\ client' = ClientCloseSocket(client)
    /\ UNCHANGED <<streamer, rx, hooks, faulted, chunk_queue>>
    /\ UNCHANGED nonStreamerVars

\* cancel the receive task if there is one that has not finished; the task
\* catches CancelledError and returns
CancelReceiveTask ==
    /\ cancel_pc = "task"
    /\ cancel_pc' = "done"
    /\ rx' = IF streamer.receive_task /\ rx \notin {"done", "failed"}
               THEN "done" ELSE rx
    /\ UNCHANGED <<streamer, hooks, faulted, client, chunk_queue>>
    /\ UNCHANGED nonStreamerVars

\* the part at rest, under the specifications of the other parts
StreamerIdle ==
    /\ streamer = NewStreamer(FALSE, "str")
    /\ rx = "unborn"
    /\ cancel_pc = "idle"
    /\ hooks = << >>
    /\ faulted = FALSE
    /\ client = NewClient
    /\ chunk_queue = << >>

NextStreamer ==
    \/ StreamTextStart \/ StreamCreateClient \/ StreamConnect
    \/ StreamAudioStart \/ StreamSpawnReceive \/ StreamSendText
    \/ StreamNextToken \/ StreamSendDone \/ StreamCloseInput
    \/ StreamAwaitReceive \/ StreamFinallyClose \/ StreamFinallyReset
    \/ StreamAudioEnd \/ StreamTextEnd \/ StreamExcept
    \/ RxTake \/ RxAudio \/ RxHookRaises
    \/ ProviderChunk \/ ProviderFinal \/ ProviderLoopError
    \/ CancelBegin \/ CancelCloseSocket \/ CancelReceiveTask

(***************************************************************************)
(* ElevenLabs: character alignment to word timing (elevenlabs_ws.py), and  *)
(* the way of the chunks to the overlay (TTSStreamer._receive_audio with   *)
(* captions on). Times are in milliseconds on the session's audio          *)
(* timeline; character k of the text sounds during [k-1, k).               *)
(***************************************************************************)
\* a letter, white space, punctuation
Alphabet == {"a", " ", "!"}
IsSpace(ch) == ch = " "
IsAlnum(ch) == ch = "a"

RECURSIVE SeqsUpTo(_, _)
SeqsUpTo(S, n) ==
    IF n = 0 THEN { << >> }
    ELSE LET shorter == SeqsUpTo(S, n - 1)
         IN  shorter \cup { Append(q, x) : q \in shorter, x \in S }

\* the texts an upstream session aligns
Texts == SeqsUpTo(Alphabet, MaxChars) \ { << >> }

\* None, for a word start / end time and for the pending word
NoTime == -1
NoPending == [word |-> << >>, start_ms |-> NoTime, end_ms |-> NoTime]

\* any(c.isalnum() for c in w.word)
HasAlnum(word) == \E i \in DOMAIN word : IsAlnum(word[i])

\* the filter of punctuation-only "words"
RECURSIVE FilterAlnum(_)
FilterAlnum(ws) ==
    IF ws = << >> THEN << >>
    ELSE (IF HasAlnum(Head(ws).word) THEN << Head(ws) >> ELSE << >>)
             \o FilterAlnum(Tail(ws))

\* the for loop of parse_alignment_to_words, from character i on
RECURSIVE ScanChars(_, _, _, _, _)
ScanChars(chars, start_times_ms, durations_ms, i, acc) ==
    IF i > Len(chars) THEN acc
    ELSE IF IsSpace(chars[i])
      THEN IF acc.current_word # << >> /\ acc.word_start_ms # NoTime
             THEN ScanChars(chars, start_times_ms, durations_ms, i + 1,
                    [ words |-> Append(acc.words,
                                  [word |-> acc.current_word,
                                   start_ms |-> acc.word_start_ms,
                                   end_ms |-> acc.word_end_ms]),
                      current_word |-> << >>,
                      word_start_ms |-> NoTime,
                      word_end_ms |-> NoTime ])
             ELSE ScanChars(chars, start_times_ms, durations_ms, i + 1, acc)
      ELSE ScanChars(chars, start_times_ms, durations_ms, i + 1,
             [ acc EXCEPT
                 !.word_start_ms = IF @ = NoTime THEN start_times_ms[i] ELSE @,
                 !.current_word = Append(@, chars[i]),
                 !.word_end_ms = start_times_ms[i]
                     + (IF i <= Len(durations_ms) THEN durations_ms[i] ELSE 0) ])

first_char_never_continues(chars) == FALSE

\* first_char_continues_word = not chars[0].isspace()
first_char_continues_word(chars) == ~IsSpace(chars[1])

\* parse_alignment_to_words: the complete words and the new pending word
parse_alignment_to_words(chars, start_times_ms, durations_ms, pending_word) ==
    IF chars = << >> THEN [words |-> << >>, pending |-> pending_word]
    ELSE
      LET continues == first_char_continues_word(chars)
          has == pending_word.word # << >>
          acc0 ==
            IF has /\ continues
              THEN [ words |-> << >>,
                     current_word |-> pending_word.word,
                     word_start_ms |-> pending_word.start_ms,
                     word_end_ms |-> pending_word.end_ms ]
              ELSE [ words |-> IF has THEN << pending_word >> ELSE << >>,
                     current_word |-> << >>,
                     word_start_ms |-> NoTime,
                     word_end_ms |-> NoTime ]
          acc == ScanChars(chars, start_times_ms, durations_ms, 1, acc0)
          last == [word |-> acc.current_word, start_ms |-> acc.word_start_ms,
                   end_ms |-> acc.word_end_ms]
          ends_mid_word == acc.current_word # << >>
                              /\ ~IsSpace(chars[Len(chars)])
      IN  IF ends_mid_word /\ acc.word_start_ms # NoTime
            THEN [words |-> FilterAlnum(acc.words), pending |-> last]
            ELSE IF acc.current_word # << >> /\ acc.word_start_ms # NoTime
              THEN [words |-> FilterAlnum(Append(acc.words, last)),
                    pending |-> NoPending]
              ELSE [words |-> FilterAlnum(acc.words), pending |-> NoPending]

\* ElevenLabsWSClient after connect(), for the text the upstream will align
NewAlignment(text) ==
    [ text         |-> text,
      pos          |-> 0,          \* characters received so far
      pending_word |-> NoPending,  \* self._pending_word
      final        |-> FALSE ]     \* the isFinal message was received

\* an AudioChunkWithTiming: the audio as the interval [lo, hi) it plays
\* (lo = hi for b""), and the words
AudioChunk(lo, hi, words) == [lo |-> lo, hi |-> hi, words |-> words]

\* `for w in chunk.words:` of _receive_audio: the words are appended to the
\* spoken text, a space between two words
RECURSIVE Accumulate(_, _)
Accumulate(spoken, words) ==
    IF words = << >> THEN spoken
    ELSE LET sep == IF spoken # << >> /\ ~IsSpace(spoken[Len(spoken)])
                      THEN << " " >> ELSE << >>
         IN  Accumulate(spoken \o sep \o Head(words).word, Tail(words))

WordsInit ==
    /\ el \in { NewAlignment(t) : t \in Texts }
    /\ el_queue = << >>
    /\ frames = << >>
    /\ spoken_text = << >>

WordsIdle ==
    /\ el = NewAlignment(<<"a">>)
    /\ el_queue = << >>
    /\ frames = << >>
    /\ spoken_text = << >>

\* _receive_loop, one message with audio and the alignment of its n
\* characters: parse, keep the pending word, queue the chunk
ElMessage ==
    /\ ~el.final
    /\ \E n \in 1..(Len(el.text) - el.pos) :
         LET chars == SubSeq(el.text, el.pos + 1, el.pos + n)
             starts == [i \in 1..n |-> el.pos + i - 1]
             durs == [i \in 1..n |-> 1]
             result == parse_alignment_to_words(chars, starts, durs,
                                                el.pending_word)
         IN  /\ el' = [el EXCEPT !.pos = @ + n,
                                 !.pending_word = result.pending]
             /\ el_queue' = Append(el_queue,
                              AudioChunk(el.pos, el.pos + n, result.words))
    /\ UNCHANGED <<frames, spoken_text>>
    /\ UNCHANGED nonWordVars

\* _receive_loop, the isFinal message: flush the pending word as a chunk
\* without audio
ElFinal ==
    /\ ~el.final
    /\ el.pos = Len(el.text)
    /\ el' = [el EXCEPT !.final = TRUE, !.pending_word = NoPending]
    /\ el_queue' =
         IF el.pending_word.word # << >> /\ HasAlnum(el.pending_word.word)
           THEN Append(el_queue, AudioChunk(0, 0, << el.pending_word >>))
           ELSE el_queue
    /\ UNCHANGED <<frames, spoken_text>>
    /\ UNCHANGED nonWordVars

\* the frames _receive_audio writes for one chunk: word timing BEFORE the
\* audio of the same chunk
ChunkFrames(chunk) ==
    (IF chunk.words # << >>
       THEN << [type |-> "word_timing", words |-> chunk.words,
                lo |-> 0, hi |-> 0] >>
       ELSE << >>)
    \o (IF chunk.lo < chunk.hi
          THEN << [type |-> "audio", words |-> << >>,
                   lo |-> chunk.lo, hi |-> chunk.hi] >>
          ELSE << >>)

\* _receive_audio, one chunk taken from the queue and forwarded
ForwardChunk ==
    /\ el_queue # << >>
    /\ spoken_text' = Accumulate(spoken_text, Head(el_queue).words)
    /\ frames' = frames \o ChunkFrames(Head(el_queue))
    /\ el_queue' = Tail(el_queue)
    /\ UNCHANGED el
    /\ UNCHANGED nonWordVars

NextWords == ElMessage \/ ElFinal \/ ForwardChunk

(***************************************************************************)
(* Claims about word timing (checked under SpecWords)                      *)
(***************************************************************************)
\* C6 (as claimed): the word_timing frame of every word delivered to the
\* overlay is sent before the audio frame that contains the word's start
\* time, pending and flushed words included.
C6_WordTimingPrecedesItsAudio ==
    \A p, q \in DOMAIN frames :
        ( /\ frames[p].type = "word_timing"
          /\ frames[q].type = "audio"
          /\ \E k \in DOMAIN frames[p].words :
                /\ frames[q].lo <= frames[p].words[k].start_ms
                /\ frames[p].words[k].start_ms < frames[q].hi )
        => p < q

\* the words of a text: its maximal runs of characters other than white
\* space, from character i on, cur being the run under way
RECURSIVE SplitFrom(_, _, _)
SplitFrom(text, i, cur) ==
    IF i > Len(text)
      THEN (IF cur # << >> THEN << cur >> ELSE << >>)
      ELSE IF IsSpace(text[i])
        THEN (IF cur # << >> THEN << cur >> ELSE << >>)
                 \o SplitFrom(text, i + 1, << >>)
        ELSE SplitFrom(text, i + 1, Append(cur, text[i]))

WordsOf(text) == SplitFrom(text, 1, << >>)

IsPrefix(p, q) == Len(p) <= Len(q) /\ \A i \in DOMAIN p : p[i] = q[i]

\* the words of the word_timing frames written so far, from frame i on:
\* the words an overlay can report as played are leading words of these
RECURSIVE TimedWords(_)
TimedWords(i) ==
    IF i > Len(frames) THEN << >>
    ELSE [k \in DOMAIN frames[i].words |-> frames[i].words[k].word]
             \o TimedWords(i + 1)

\* C12 (as claimed): the text spoken so far (the content an interrupted
\* message is saved with) and the words sent to the overlay so far (the
\* content after reconciliation is a run of leading words of these) are,
\* as sequences of words, prefixes of the generated text.
C12_SpokenWordsArePrefixOfGenerated ==
    /\ IsPrefix(WordsOf(spoken_text), WordsOf(el.text))
    /\ IsPrefix(TimedWords(1), WordsOf(el.text))

(***************************************************************************)
(* Generation coordinator (app.py): character_speak, character_chat and    *)
(* stop_character_generation around generation_locks and                   *)
(* active_generations. A generation is reduced to the frames it broadcasts *)
(* (its first frame, one audio frame, its end frame), to its cancel flag   *)
(* and to how stream() / run() ends.                                       *)
(***************************************************************************)
Names == {"c1", "c2"}
Requests == 1..MaxRequests

\* the characters request r may name: the characters are alike, the first
\* request names "c1"
NamesFor(r) == IF r = 1 THEN {"c1"} ELSE Names

\* None, for active_generations.get(name) and for the holder of a free lock
NoRequest == 0

\* asyncio.Lock(): holder is the task inside `async with`, waiters the
\* tasks suspended in acquire(), first come first served
NewLock == [holder |-> NoRequest, waiters |-> << >>]

\* a faulty variant of CanAcquire: a lock that keeps nobody out
CanAcquireAlways(lock) == TRUE
\* asyncio.Lock.acquire() returns at once: the lock is free and nobody is
\* in line for it
CanAcquire(lock) == lock.holder = NoRequest /\ lock.waiters = << >>

\* asyncio.Lock.release(): the lock passes to the first waiter
Release(lock) ==
    IF lock.waiters = << >> THEN NewLock
    ELSE [holder |-> Head(lock.waiters), waiters |-> Tail(lock.waiters)]

\* a handler before its request has arrived. incumbent is an observation:
\* the generation that was active for the character when the handler
\* reached `async with generation_locks[name]`.
NewRequest ==
    [ kind        |-> "none",     \* "speak", "chat", "stop"
      name        |-> "none",     \* the character
      pc          |-> "idle",
      incumbent   |-> NoRequest,
      was_active  |-> FALSE,      \* stop: was_active
      spoken_text |-> "None",     \* stop: spoken_text
      status      |-> "none" ]    \* "ok": returned, "error": HTTP 500

\* TTSStreamer / ChatPipeline as the coordinator sees it
NewGeneration ==
    [ progress  |-> "new",        \* "started": first frame sent; "spoke"
      cancelled |-> FALSE,        \* _cancelled
      spoken    |-> "" ]          \* get_spoken_text()

Frame(type, r) == [type |-> type, by |-> r]

\* OBSHarness.stop_stream(name), invoked by request r
stop_stream(r) == << Frame("stop_stream", r) >>

\* a faulty variant of StopFrames: stop_stream only after a cancellation
StopFramesIfActive(r, was_active) ==
    IF was_active THEN stop_stream(r) ELSE << >>
\* stop_character_generation: "always send stop command to browser"
StopFrames(r, was_active) == stop_stream(r)

CoordInit ==
    /\ req = [r \in Requests |-> NewRequest]
    /\ generation_locks = [c \in Names |-> NewLock]
    /\ active_generations = [c \in Names |-> NoRequest]
    /\ gen = [r \in Requests |-> NewGeneration]
    /\ sent = [c \in Names |-> << >>]

CoordIdle == CoordInit

\* a speak or chat request enters its handler (character lookup, building
\* the streamer / pipeline: awaits before the lock). Requests are numbered
\* in the order in which they ask for the lock.
Arrive(r) ==
    /\ req[r].pc = "idle"
    /\ r > 1 => req[r - 1].pc \notin {"idle", "acquire"}
    /\ \E k \in {"speak", "chat"}, c \in NamesFor(r) :
         req' = [req EXCEPT ![r] = [@ EXCEPT !.kind = k, !.name = c,
                                              !.pc = "acquire"]]
    /\ UNCHANGED <<generation_locks, active_generations, gen, sent>>
    /\ UNCHANGED nonCoordVars

\* cancel_active_generation(name): pop the generation, cancel it
cancel_active_generation(c) ==
    /\ active_generations' = [active_generations EXCEPT ![c] = NoRequest]
    /\ gen' = [gen EXCEPT ![active_generations[c]].cancelled = TRUE]

\* the body of `async with generation_locks[name]` from its start to its
\* first suspension, for the task r, with locals q, that has just got the
\* lock (left in state `lock`).
\*   speak / chat: `if name in active_generations:` cancel the incumbent
\*     and suspend there, else install the own generation and start
\*     stream() / run();
\*   stop: if a generation is active, cancel it and keep its spoken text;
\*     then leave the block, which releases the lock.
Enter(r, q, lock) ==
    LET c == q.name
        active == active_generations[c] # NoRequest
    IN  IF q.kind = "stop"
          THEN /\ IF active
                    THEN /\ cancel_active_generation(c)
                         /\ req' = [req EXCEPT ![r] = [q EXCEPT
                              !.was_active = TRUE,
                              !.spoken_text = gen[active_generations[c]].spoken,
                              !.pc = "stop_send"]]
                    ELSE /\ req' = [req EXCEPT ![r] =
                              [q EXCEPT !.pc = "stop_send"]]
                         /\ UNCHANGED <<active_generations, gen>>
               /\ generation_locks' =
                    [generation_locks EXCEPT ![c] = Release(lock)]
          ELSE /\ IF active
                    THEN /\ cancel_active_generation(c)
                         /\ req' = [req EXCEPT ![r] =
                              [q EXCEPT !.pc = "preempting"]]
                    ELSE /\ active_generations' =
                              [active_generations EXCEPT ![c] = r]
                         /\ req' = [req EXCEPT ![r] =
                              [q EXCEPT !.pc = "streaming"]]
                         /\ UNCHANGED gen
               /\ generation_locks' = [generation_locks EXCEPT ![c] = lock]

\* acquire(): take the free lock and go on, or wait in line
Acquire(r, q) ==
    LET c == q.name
        lock == generation_locks[c]
    IN  IF CanAcquire(lock)
          THEN Enter(r, q, [lock EXCEPT !.holder = r])
          ELSE /\ generation_locks' =
                    [generation_locks EXCEPT ![c].waiters = Append(@, r)]
               /\ req' = [req EXCEPT ![r] = [q EXCEPT !.pc = "waiting"]]
               /\ UNCHANGED <<active_generations, gen>>

\* character_speak / character_chat reach `async with generation_locks[name]`
LockRequest(r) ==
    /\ req[r].pc = "acquire"
    /\ Acquire(r, [req[r] EXCEPT
                      !.incumbent = active_generations[req[r].name]])
    /\ UNCHANGED sent
    /\ UNCHANGED nonCoordVars

\* a handler suspended at the lock, or in the cancellation of the incumbent,
\* resumes: the first has the lock now and enters the block; the second
\* sends stop_stream, installs its generation and starts stream() / run()
Resume(r) ==
    /\ \/ /\ req[r].pc = "waiting"
          /\ generation_locks[req[r].name].holder = r
          /\ Enter(r, req[r], generation_locks[req[r].name])
          /\ UNCHANGED sent
       \/ /\ req[r].pc = "preempting"
          /\ sent' = [sent EXCEPT ![req[r].name] = @ \o stop_stream(r)]
          /\ active_generations' =
               [active_generations EXCEPT ![req[r].name] = r]
          /\ req' = [req EXCEPT ![r].pc = "streaming"]
          /\ UNCHANGED <<generation_locks, gen>>
    /\ UNCHANGED nonCoordVars

\* the generation broadcasts its first frame (text_stream_start or
\* stream_start)
GenFirstFrame(r) ==
    /\ req[r].pc = "streaming"
    /\ gen[r].progress = "new"
    /\ gen' = [gen EXCEPT ![r].progress = "started"]
    /\ sent' = [sent EXCEPT ![req[r].name] = Append(@, Frame("stream_start", r))]
    /\ UNCHANGED <<req, generation_locks, active_generations>>
    /\ UNCHANGED nonCoordVars

\* the generation broadcasts words and audio (the receive task stops
\* forwarding once the cancel flag is set)
GenAudioFrame(r) ==
    /\ req[r].pc = "streaming"
    /\ gen[r].progress = "started"
    /\ ~gen[r].cancelled
    /\ gen' = [gen EXCEPT ![r].progress = "spoke", ![r].spoken = "spoken"]
    /\ sent' = [sent EXCEPT ![req[r].name] = Append(@, Frame("audio", r))]
    /\ UNCHANGED <<req, generation_locks, active_generations>>
    /\ UNCHANGED nonCoordVars

\* the handler's way out of `async with`:
\* finally: active_generations.pop(name, None); then the lock is released
Leave(r) ==
    LET c == req[r].name IN
      /\ active_generations' = [active_generations EXCEPT ![c] = NoRequest]
      /\ generation_locks' = [generation_locks EXCEPT ![c] = Release(@)]

\* stream() / run() returns after its end frames; the rest of the try body
\* (playback log, memory), the finally clause, the response
GenReturn(r) ==
    /\ req[r].pc = "streaming"
    /\ gen[r].progress \in {"started", "spoke"}
    /\ sent' = [sent EXCEPT ![req[r].name] = Append(@, Frame("stream_end", r))]
    /\ Leave(r)
    /\ req' = [req EXCEPT ![r].pc = "done", ![r].status = "ok"]
    /\ UNCHANGED gen
    /\ UNCHANGED nonCoordVars

\* stream() / run() raises, after closing what it had opened; the except
\* clause (stop_stream), the finally clause, HTTP 500
GenRaise(r) ==
    /\ req[r].pc = "streaming"
    /\ sent' = [sent EXCEPT ![req[r].name] =
                  (IF gen[r].progress = "new" THEN @
                   ELSE Append(@, Frame("stream_end", r))) \o stop_stream(r)]
    /\ Leave(r)
    /\ req' = [req EXCEPT ![r].pc = "done", ![r].status = "error"]
    /\ UNCHANGED gen
    /\ UNCHANGED nonCoordVars

\* a stop request: the handler reaches the lock without an await before
StopArrive(r) ==
    /\ req[r].pc = "idle"
    /\ r > 1 => req[r - 1].pc \notin {"idle", "acquire"}
    /\ \E c \in NamesFor(r) :
         Acquire(r, [NewRequest EXCEPT !.kind = "stop", !.name = c,
                                       !.incumbent = active_generations[c]])
    /\ UNCHANGED sent
    /\ UNCHANGED nonCoordVars

\* stop_character_generation after the lock: stop_stream, the response
StopSend(r) ==
    /\ req[r].pc = "stop_send"
    /\ sent' = [sent EXCEPT ![req[r].name] =
                  @ \o StopFrames(r, req[r].was_active)]
    /\ req' = [req EXCEPT ![r].pc = "done", ![r].status = "ok"]
    /\ UNCHANGED <<generation_locks, active_generations, gen>>
    /\ UNCHANGED nonCoordVars

Next ==
    \E r \in Requests :
        \/ Arrive(r)
        \/ LockRequest(r)
        \/ Resume(r)
        \/ GenFirstFrame(r)
        \/ GenAudioFrame(r)
        \/ GenReturn(r)
        \/ GenRaise(r)
        \/ StopArrive(r)
        \/ StopSend(r)

(***************************************************************************)
(* Conversation memory (app.py): what character_chat records after         *)
(* pipeline.run(), and the reconciliation of an interrupted message when   *)
(* an overlay reports stream_stopped.                                      *)
(*                                                                         *)
(* The ChatPipeline that app.py drives (run, cancel, get_spoken_text,      *)
(* _cancelled) is not among the sources; it is modelled after the          *)
(* specification: run() returns the text of the LLM, cancel() sets the     *)
(* cancel flag, the spoken text is what had been turned into audio.        *)
(***************************************************************************)
Chats == 1..MaxChats
Overlays == {"o1", "o2"}
Clears == 1..MaxClears

\* a message of conversation_memory[name]
Message(role, content, interrupted, generated_text) ==
    [ role |-> role, content |-> content,
      interrupted |-> interrupted, generated_text |-> generated_text ]

\* a ConversationMessage row; its id is its place in db
Row(character_name, m) ==
    [ character_name |-> character_name, role |-> m.role,
      content |-> m.content, interrupted |-> m.interrupted,
      generated_text |-> m.generated_text ]

\* a row that `await session.delete(msg)` has removed; ids are not reused
DeletedRow == Row("deleted", Message("none", "", FALSE, "None"))

\* None, for a db id
NoRow == 0
\* `name not in pending_interrupted`
NoEntry == [msg_idx |-> 0, persist |-> FALSE, db_id |-> NoRow, set |-> FALSE]
Entry(msg_idx, persist, db_id) ==
    [msg_idx |-> msg_idx, persist |-> persist, db_id |-> db_id, set |-> TRUE]

\* a chat handler before its request: the character, persist_memory, the
\* pipeline (cancel flag, spoken text, the text run() returned) and the id
\* of the row it has just inserted
NewChat ==
    [ pc |-> "idle", name |-> "none", persist |-> FALSE,
      cancelled |-> FALSE, spoken |-> "", response_text |-> "",
      db_id |-> NoRow, status |-> "none",
      stop_stream |-> FALSE,   \* the except clause sent stop_stream
      history |-> << >> ]      \* conversation_history of the pipeline

\* a chat handler after its response
Finished(status) == [NewChat EXCEPT !.pc = "done", !.status = status]

\* a chat handler after its except clause (await harness.stop_stream(name),
\* HTTP 500) and its finally clause
Failed == [Finished("error") EXCEPT !.stop_stream = TRUE]

PopPendingKeeps(c) == pending_interrupted

\* pending_interrupted.pop(name, None)
PopPending(c) == [pending_interrupted EXCEPT ![c] = NoEntry]

\* an overlay's websocket handler and the locals of its stream_stopped branch
NewSocket ==
    [ pc |-> "idle", name |-> "none", actual_text |-> "",
      msg_idx |-> 0, db_id |-> NoRow ]

\* a clear_character_memory handler before its request
NewClear == [pc |-> "idle", name |-> "none"]

\* the server after startup with no rows stored; the characters' settings
\* do not change while it runs
MemoryInit ==
    /\ chat = [t \in Chats |-> NewChat]
    /\ conversation_memory = [c \in Names |-> << >>]
    /\ db = << >>
    /\ pending_interrupted = [c \in Names |-> NoEntry]
    /\ sockets = [o \in Overlays |-> NewSocket]
    /\ persist_memory \in [Names -> BOOLEAN]
    /\ clears = [k \in Clears |-> NewClear]

MemoryIdle ==
    /\ chat = [t \in Chats |-> NewChat]
    /\ conversation_memory = [c \in Names |-> << >>]
    /\ db = << >>
    /\ pending_interrupted = [c \in Names |-> NoEntry]
    /\ sockets = [o \in Overlays |-> NewSocket]
    /\ persist_memory = [c \in Names |-> FALSE]
    /\ clears = [k \in Clears |-> NewClear]

\* `async with generation_locks[name]` as the memory sees it: one chat of a
\* character at a time; a handler at "wait" is suspended in the acquire
ChatLockFree(c) ==
    \A u \in Chats : chat[u].name = c => chat[u].pc \in {"idle", "wait"}

\* the conversation history character_chat builds for the pipeline: the
\* user and assistant messages, and the context messages as user messages
History(messages) ==
    [ i \in 1..Len(messages) |->
        [ role    |-> IF messages[i].role = "context"
                        THEN "user" ELSE messages[i].role,
          content |-> messages[i].content ] ]

\* character_chat up to `async with generation_locks[name]`: the history is
\* read from memory and the pipeline is built; nothing is awaited from
\* there to the lock, which is entered at once when it is free
ChatRead(t) ==
    /\ chat[t].pc = "idle"
    /\ t > 1 => chat[t - 1].pc # "idle"
    /\ \E c \in NamesFor(t) :
         chat' = [chat EXCEPT ![t] =
                    [NewChat EXCEPT
                       !.pc = IF ChatLockFree(c) THEN "run" ELSE "wait",
                       !.name = c,
                       !.persist = persist_memory[c],
                       !.history = History(conversation_memory[c])]]
    /\ UNCHANGED <<conversation_memory, db, pending_interrupted, sockets>>
    /\ UNCHANGED <<persist_memory, clears>>
    /\ UNCHANGED nonMemoryVars

\* character_chat enters the lock it waited for and starts pipeline.run()
ChatBegin(t) ==
    /\ chat[t].pc = "wait"
    /\ ChatLockFree(chat[t].name)
    /\ chat' = [chat EXCEPT ![t].pc = "run"]
    /\ UNCHANGED <<conversation_memory, db, pending_interrupted, sockets>>
    /\ UNCHANGED <<persist_memory, clears>>
    /\ UNCHANGED nonMemoryVars

\* the pipeline's streamer turns text into audio: words are spoken
PipelineSpeak(t) ==
    /\ chat[t].pc = "run"
    /\ ~chat[t].cancelled
    /\ chat[t].spoken = ""
    /\ chat' = [chat EXCEPT ![t].spoken = "part"]
    /\ UNCHANGED <<conversation_memory, db, pending_interrupted, sockets>>
    /\ UNCHANGED <<persist_memory, clears>>
    /\ UNCHANGED nonMemoryVars

\* ChatPipeline.cancel() while run() is in progress
PipelineCancel(t) ==
    /\ chat[t].pc = "run"
    /\ ~chat[t].cancelled
    /\ chat' = [chat EXCEPT ![t].cancelled = TRUE]
    /\ UNCHANGED <<conversation_memory, db, pending_interrupted, sockets>>
    /\ UNCHANGED <<persist_memory, clears>>
    /\ UNCHANGED nonMemoryVars

\* pipeline.run() returns the text of the LLM
PipelineReturn(t) ==
    /\ chat[t].pc = "run"
    /\ chat' = [chat EXCEPT ![t].response_text = "full", ![t].pc = "user"]
    /\ UNCHANGED <<conversation_memory, db, pending_interrupted, sockets>>
    /\ UNCHANGED <<persist_memory, clears>>
    /\ UNCHANGED nonMemoryVars

\* pipeline.run() raises; the except clause drops the pending entry
PipelineRaise(t) ==
    /\ chat[t].pc = "run"
    /\ pending_interrupted' = PopPending(chat[t].name)
    /\ chat' = [chat EXCEPT ![t] = Failed]
    /\ UNCHANGED <<conversation_memory, db, sockets>>
    /\ UNCHANGED <<persist_memory, clears>>
    /\ UNCHANGED nonMemoryVars

\* save_conversation_message with persist, as far as the commit: the row
SaveRow(t, m, next_pc) ==
    /\ db' = Append(db, Row(chat[t].name, m))
    /\ chat' = [chat EXCEPT ![t].db_id = Len(db) + 1, ![t].pc = next_pc]

\* the message the handler records for the assistant
AssistantMessage(q) ==
    IF q.cancelled
      THEN Message("assistant", q.spoken, TRUE, q.response_text)
      ELSE Message("assistant", q.response_text, FALSE, "None")

\* a variant of SavesAssistant without `if spoken_text:`
SavesAssistantAlways(q) == TRUE
\* `if pipeline._cancelled:` ... `if spoken_text:`: is there a message to
\* save for the assistant
SavesAssistant(q) == q.cancelled => q.spoken # ""

\* save_conversation_message(name, "user", ...): with persist the row is
\* committed first, the message is appended to memory after the refresh
SaveUser(t) ==
    /\ chat[t].pc = "user"
    /\ IF chat[t].persist
         THEN /\ SaveRow(t, Message("user", "hello", FALSE, "None"), "user_mem")
              /\ UNCHANGED conversation_memory
         ELSE /\ conversation_memory' = [conversation_memory EXCEPT
                   ![chat[t].name] =
                       Append(@, Message("user", "hello", FALSE, "None"))]
              /\ chat' = [chat EXCEPT ![t].pc = "assistant"]
              /\ UNCHANGED db
    /\ UNCHANGED <<pending_interrupted, sockets>>
    /\ UNCHANGED <<persist_memory, clears>>
    /\ UNCHANGED nonMemoryVars

\* `await session.refresh(db_msg)` selects the committed row again and
\* raises when it has been deleted meanwhile
RefreshFails(t) == db[chat[t].db_id] = DeletedRow

\* the handler's except clause after a failed save
SaveRaise(t) ==
    /\ pending_interrupted' = PopPending(chat[t].name)
    /\ chat' = [chat EXCEPT ![t] = Failed]
    /\ UNCHANGED conversation_memory

SaveUserMemory(t) ==
    /\ chat[t].pc = "user_mem"
    /\ IF RefreshFails(t)
         THEN SaveRaise(t)
         ELSE /\ conversation_memory' = [conversation_memory EXCEPT
                   ![chat[t].name] =
                       Append(@, Message("user", "hello", FALSE, "None"))]
              /\ chat' = [chat EXCEPT ![t].pc = "assistant"]
              /\ UNCHANGED pending_interrupted
    /\ UNCHANGED <<db, sockets>>
    /\ UNCHANGED <<persist_memory, clears>>
    /\ UNCHANGED nonMemoryVars

\* the append to memory that ends save_conversation_message for the
\* assistant, and for an interrupted message the pending entry
\* pending_interrupted[name] = (msg_idx, persist, db_id)
AppendAssistant(t, db_id) ==
    LET c == chat[t].name IN
      /\ conversation_memory' = [conversation_memory EXCEPT
           ![c] = Append(@, AssistantMessage(chat[t]))]
      /\ pending_interrupted' =
           IF chat[t].cancelled
             THEN [pending_interrupted EXCEPT
                     ![c] = Entry(Len(conversation_memory[c]),
                                  chat[t].persist, db_id)]
             ELSE pending_interrupted

\* the assistant's message: interrupted with the spoken text when the
\* pipeline was cancelled, the full response otherwise
SaveAssistant(t) ==
    /\ chat[t].pc = "assistant"
    /\ IF ~SavesAssistant(chat[t])
         THEN /\ chat' = [chat EXCEPT ![t] = Finished("ok")]
              /\ UNCHANGED <<conversation_memory, db, pending_interrupted>>
         ELSE IF chat[t].persist
           THEN /\ SaveRow(t, AssistantMessage(chat[t]), "assistant_mem")
                /\ UNCHANGED <<conversation_memory, pending_interrupted>>
           ELSE /\ AppendAssistant(t, NoRow)
                /\ chat' = [chat EXCEPT ![t] = Finished("ok")]
                /\ UNCHANGED db
    /\ UNCHANGED sockets
    /\ UNCHANGED <<persist_memory, clears>>
    /\ UNCHANGED nonMemoryVars

SaveAssistantMemory(t) ==
    /\ chat[t].pc = "assistant_mem"
    /\ IF RefreshFails(t)
         THEN SaveRaise(t)
         ELSE /\ AppendAssistant(t, chat[t].db_id)
              /\ chat' = [chat EXCEPT ![t] = Finished("ok")]
    /\ UNCHANGED <<db, sockets>>
    /\ UNCHANGED <<persist_memory, clears>>
    /\ UNCHANGED nonMemoryVars

\* character_websocket: the stream_stopped event of an overlay of a
\* character with a pending entry is received (set_channel_state is awaited
\* before the pending entry is looked at)
WsReceive(o) ==
    /\ sockets[o].pc = "idle"
    /\ \E c \in Names, text \in {"heard"} :
         /\ pending_interrupted[c].set
         /\ sockets' = [sockets EXCEPT ![o] = [NewSocket EXCEPT !.pc = "stream_stopped",
                                    !.name = c, !.actual_text = text]]
    /\ UNCHANGED <<chat, conversation_memory, db, pending_interrupted>>
    /\ UNCHANGED <<persist_memory, clears>>
    /\ UNCHANGED nonMemoryVars

\* update_interrupted_message, in memory: msg_idx counts from 0
UpdateContent(messages, msg_idx, actual_content) ==
    IF msg_idx < Len(messages)
      THEN [messages EXCEPT ![msg_idx + 1].content = actual_content]
      ELSE messages

\* the stream_stopped branch up to its first suspension: with a pending
\* entry, update the message in memory; then either go for the row, or
\* `del pending_interrupted[character]`
WsReconcile(o) ==
    /\ sockets[o].pc = "stream_stopped"
    /\ LET c == sockets[o].name
           e == pending_interrupted[c]
       IN  IF ~e.set
             THEN /\ sockets' = [sockets EXCEPT ![o] = NewSocket]
                  /\ UNCHANGED <<conversation_memory, pending_interrupted>>
             ELSE /\ conversation_memory' = [conversation_memory EXCEPT
                       ![c] = UpdateContent(@, e.msg_idx, sockets[o].actual_text)]
                  /\ IF e.persist /\ e.db_id # NoRow
                       THEN /\ sockets' = [sockets EXCEPT ![o].pc = "db",
                                        ![o].msg_idx = e.msg_idx,
                                        ![o].db_id = e.db_id]
                            /\ UNCHANGED pending_interrupted
                       ELSE /\ sockets' = [sockets EXCEPT ![o] = NewSocket]
                            /\ pending_interrupted' =
                                 [pending_interrupted EXCEPT ![c] = NoEntry]
    /\ UNCHANGED <<chat, db>>
    /\ UNCHANGED <<persist_memory, clears>>
    /\ UNCHANGED nonMemoryVars

\* update_interrupted_message, the row: select by id, set content, commit;
\* then `del pending_interrupted[character]`, a KeyError when another
\* handler has deleted the entry meanwhile
WsUpdateRow(o) ==
    /\ sockets[o].pc = "db"
    /\ db' = IF sockets[o].db_id \in DOMAIN db
                  /\ db[sockets[o].db_id] # DeletedRow
               THEN [db EXCEPT ![sockets[o].db_id].content = sockets[o].actual_text]
               ELSE db
    /\ pending_interrupted' =
         [pending_interrupted EXCEPT ![sockets[o].name] = NoEntry]
    /\ sockets' = [sockets EXCEPT ![o] =
                IF pending_interrupted[sockets[o].name].set THEN NewSocket
                ELSE [NewSocket EXCEPT !.pc = "crashed"]]
    /\ UNCHANGED <<chat, conversation_memory>>
    /\ UNCHANGED <<persist_memory, clears>>
    /\ UNCHANGED nonMemoryVars

\* clear_character_memory: the character is looked up, then
\* clear_conversation_messages runs `del conversation_memory[name]`; with
\* persist it goes on to the rows
ClearMemory(k) ==
    /\ clears[k].pc = "idle"
    /\ \E c \in Names :
         /\ conversation_memory' = [conversation_memory EXCEPT ![c] = << >>]
         /\ clears' = [clears EXCEPT ![k] =
                         [pc |-> IF persist_memory[c] THEN "rows" ELSE "done",
                          name |-> c]]
    /\ UNCHANGED <<chat, db, pending_interrupted, sockets, persist_memory>>
    /\ UNCHANGED nonMemoryVars

\* the rows of character c are deleted
DeleteRows(rows, c) ==
    [i \in DOMAIN rows |->
        IF rows[i].character_name = c THEN DeletedRow ELSE rows[i]]

\* clear_conversation_messages, the rows: select the character's rows,
\* delete each, commit
ClearRows(k) ==
    /\ clears[k].pc = "rows"
    /\ db' = DeleteRows(db, clears[k].name)
    /\ clears' = [clears EXCEPT ![k].pc = "done"]
    /\ UNCHANGED <<chat, conversation_memory, pending_interrupted, sockets,
                   persist_memory>>
    /\ UNCHANGED nonMemoryVars

NextMemory ==
    \/ \E k \in Clears :
          \/ ClearMemory(k)
          \/ ClearRows(k)
    \/ \E t \in Chats :
          \/ ChatRead(t)
          \/ ChatBegin(t)
          \/ PipelineSpeak(t)
          \/ PipelineCancel(t)
          \/ PipelineReturn(t)
          \/ PipelineRaise(t)
          \/ SaveUser(t)
          \/ SaveUserMemory(t)
          \/ SaveAssistant(t)
          \/ SaveAssistantMemory(t)
    \/ \E o \in Overlays :
          \/ WsReceive(o)
          \/ WsReconcile(o)
          \/ WsUpdateRow(o)

(***************************************************************************)
(* Connection registry (app.py): ConnectionManager, the overlay sessions   *)
(* of character_websocket, the liveness task ping_all_connections, and     *)
(* the OBSHarness calls with which speak and stop requests write to a      *)
(* character's overlays. Dashboard sessions are left out.                  *)
(***************************************************************************)
Sessions == 1..MaxSessions
Callers == 1..MaxCallers

\* seconds between two pings, and of silence before a session is stale
PING_INTERVAL == 25
STALE_THRESHOLD == 60

\* `ws not in self._last_pong`
NoPong == -1

\* `channel not in self._channel_state`, and the state of a new channel
NoState == [present |-> FALSE, playing |-> FALSE, streaming |-> FALSE]
NewState == [present |-> TRUE, playing |-> FALSE, streaming |-> FALSE]

\* an overlay's connection before it is opened. state: "open" (writes
\* succeed; the overlay may answer or not), "closed" (writes fail; the
\* handler has not yet seen the disconnect), "gone" (the handler has
\* ended). heard: when the overlay was last heard from.
NewWebSocket == [state |-> "none", name |-> "none", heard |-> 0]

\* the frames a request writes: character_speak through its streamer's
\* hooks, stop_character_generation through harness.stop_stream
FramesOf(op) ==
    IF op = "speak" THEN << "stream_start", "audio", "stream_end" >>
    ELSE << "stop_stream" >>

\* a request before it arrives. k: the frame it is at; snapshot, todo,
\* written, failed: the locals of send_to_channel; result: what the last
\* send returned; missed: some send returned False
NewCaller ==
    [ pc |-> "idle", op |-> "none", name |-> "none", k |-> 0,
      snapshot |-> << >>, todo |-> << >>, written |-> << >>,
      failed |-> << >>, result |-> FALSE, missed |-> FALSE,
      status |-> "none" ]

\* the liveness task between two rounds
NewPing ==
    [ pc |-> "sleep", now |-> 0, ticks |-> 0, channels |-> << >>,
      channel |-> "none", sessions |-> << >>, stale |-> << >> ]

RegistryInit ==
    /\ connections = [c \in Names |-> << >>]
    /\ channel_state = [c \in Names |-> NoState]
    /\ last_pong = [s \in Sessions |-> NoPong]
    /\ websockets = [s \in Sessions |-> NewWebSocket]
    /\ now = 0
    /\ ping = NewPing
    /\ callers = [t \in Callers |-> NewCaller]

RegistryIdle == RegistryInit

\* the three dictionaries of the ConnectionManager
Registry ==
    [ connections |-> connections, channel_state |-> channel_state,
      last_pong |-> last_pong ]

SetRegistry(reg) ==
    /\ connections' = reg.connections
    /\ channel_state' = reg.channel_state
    /\ last_pong' = reg.last_pong

\* list.remove(websocket)
Remove(list, s) == SelectSeq(list, LAMBDA x : x # s)

\* manager.disconnect(channel, websocket)
disconnect(reg, channel, s) ==
    IF reg.connections[channel] = << >> THEN reg
    ELSE LET rest == Remove(reg.connections[channel], s)
         IN  [ connections |-> [reg.connections EXCEPT ![channel] = rest],
               last_pong |-> [reg.last_pong EXCEPT ![s] = NoPong],
               channel_state |->
                   IF rest = << >>
                     THEN [reg.channel_state EXCEPT ![channel] = NoState]
                     ELSE reg.channel_state ]

\* `for ws in failed: self.disconnect(channel, ws)`
RECURSIVE DisconnectAll(_, _, _)
DisconnectAll(reg, channel, failed) ==
    IF failed = << >> THEN reg
    ELSE DisconnectAll(disconnect(reg, channel, Head(failed)), channel,
                       Tail(failed))

\* manager.set_channel_state(channel, "streaming", value)
SetStreaming(state, channel, value) ==
    IF state[channel].present
      THEN [state EXCEPT ![channel].streaming = value]
      ELSE state

\* does ws.send_json / ws.send_bytes succeed
Writable(s) == websockets[s].state = "open"

\* character_websocket up to its receive loop: the session is registered
RegisterChannel(state, channel) ==
    IF connections[channel] = << >>
      THEN [state EXCEPT ![channel] = NewState]
      ELSE state

WsRegister(s) ==
    /\ websockets[s].state = "none"
    /\ s > 1 => websockets[s - 1].state # "none"
    /\ \E c \in NamesFor(s) :
         /\ connections' = [connections EXCEPT ![c] = Append(@, s)]
         /\ channel_state' = RegisterChannel(channel_state, c)
         /\ websockets' = [websockets EXCEPT ![s] =
                             [state |-> "open", name |-> c, heard |-> now]]
    /\ UNCHANGED <<last_pong, now, ping, callers>>
    /\ UNCHANGED nonRegistryVars

\* the overlay answers a ping: manager.record_pong(websocket)
WsPong(s) ==
    /\ websockets[s].state = "open"
    /\ last_pong[s] # now
    /\ last_pong' = [last_pong EXCEPT ![s] = now]
    /\ websockets' = [websockets EXCEPT ![s].heard = now]
    /\ UNCHANGED <<connections, channel_state, now, ping, callers>>
    /\ UNCHANGED nonRegistryVars

\* the overlay reports stream_ended or stream_stopped while the flag is set
WsStreamEvent(s) ==
    /\ websockets[s].state = "open"
    /\ channel_state[websockets[s].name].streaming
    /\ channel_state' = SetStreaming(channel_state, websockets[s].name, FALSE)
    /\ UNCHANGED <<connections, last_pong, websockets, now, ping, callers>>
    /\ UNCHANGED nonRegistryVars

\* the connection is lost or closed by the overlay: writes fail from now on
WsDrop(s) ==
    /\ websockets[s].state = "open"
    /\ websockets' = [websockets EXCEPT ![s].state = "closed"]
    /\ UNCHANGED <<connections, channel_state, last_pong, now, ping, callers>>
    /\ UNCHANGED nonRegistryVars

\* receive_text() raises WebSocketDisconnect: manager.disconnect
WsDisconnect(s) ==
    /\ websockets[s].state = "closed"
    /\ SetRegistry(disconnect(Registry, websockets[s].name, s))
    /\ websockets' = [websockets EXCEPT ![s].state = "gone"]
    /\ UNCHANGED <<now, ping, callers>>
    /\ UNCHANGED nonRegistryVars

\* `list(manager._connections.items())`: the channels with sessions
ChannelsOf(conns) ==
    SelectSeq(<< "c1", "c2" >>, LAMBDA c : conns[c] # << >>)

\* the sessions whose last pong is older than the stale threshold, from
\* `list(manager._last_pong.items())`
StaleOf(pongs, t) ==
    SelectSeq([i \in 1..MaxSessions |-> i],
              LAMBDA s : pongs[s] # NoPong /\ pongs[s] < t - STALE_THRESHOLD)

\* the pings are through: the stale sessions are listed and the round goes
\* on to close them, or ends
AfterPings(p, pongs) ==
    LET stale == StaleOf(pongs, p.now)
    IN  [p EXCEPT !.pc = IF stale = << >> THEN "sleep" ELSE "close",
                  !.channels = << >>, !.channel = "none",
                  !.sessions = << >>, !.stale = stale]

\* ping_all_connections wakes from asyncio.sleep(PING_INTERVAL)
TickWake ==
    /\ ping.pc = "sleep"
    /\ ping.ticks < MaxTicks
    /\ now' = now + PING_INTERVAL
    /\ LET p == [ping EXCEPT !.now = now + PING_INTERVAL, !.ticks = @ + 1,
                             !.channels = ChannelsOf(connections)]
       IN  ping' = IF p.channels = << >>
                     THEN AfterPings(p, last_pong)
                     ELSE [p EXCEPT !.pc = "ping"]
    /\ UNCHANGED <<connections, channel_state, last_pong, websockets, callers>>
    /\ UNCHANGED nonRegistryVars

\* one `await ws.send_json({"action": "ping"})`, the next channel's
\* sessions being listed when the last one's are through; a failed write
\* disconnects the session
TickPing ==
    /\ ping.pc = "ping"
    /\ LET fresh == ping.sessions = << >>
           c == IF fresh THEN Head(ping.channels) ELSE ping.channel
           ss == IF fresh THEN connections[c] ELSE ping.sessions
           chs == IF fresh THEN Tail(ping.channels) ELSE ping.channels
           reg == IF ss # << >> /\ ~Writable(Head(ss))
                    THEN disconnect(Registry, c, Head(ss))
                    ELSE Registry
           p == [ping EXCEPT !.channel = c, !.channels = chs,
                             !.sessions = IF ss = << >> THEN ss ELSE Tail(ss)]
       IN  /\ SetRegistry(reg)
           /\ ping' = IF p.sessions = << >> /\ p.channels = << >>
                        THEN AfterPings(p, reg.last_pong)
                        ELSE p
    /\ UNCHANGED <<websockets, now, callers>>
    /\ UNCHANGED nonRegistryVars

\* one stale session: `await ws.close()`, `_last_pong.pop(ws, None)`
TickClose ==
    /\ ping.pc = "close"
    /\ LET s == Head(ping.stale)
       IN  /\ websockets' = [websockets EXCEPT ![s].state =
                               IF @ = "open" THEN "closed" ELSE @]
           /\ last_pong' = [last_pong EXCEPT ![s] = NoPong]
           /\ ping' = [ping EXCEPT !.stale = Tail(@),
                         !.pc = IF Tail(ping.stale) = << >>
                                  THEN "sleep" ELSE "close"]
    /\ UNCHANGED <<connections, channel_state, now, callers>>
    /\ UNCHANGED nonRegistryVars

\* a speak or stop request arrives; speak answers 400 when the character
\* is not connected
CallBegin(t) ==
    /\ callers[t].pc = "idle"
    /\ t > 1 => callers[t - 1].pc # "idle"
    /\ \E op \in {"speak", "stop"}, c \in Names :
         callers' = [callers EXCEPT ![t] =
            IF op = "speak" /\ connections[c] = << >>
              THEN [NewCaller EXCEPT !.pc = "done", !.op = op, !.name = c,
                                     !.status = "rejected"]
              ELSE [NewCaller EXCEPT !.pc = "send", !.op = op, !.name = c,
                                     !.k = 1]]
    /\ UNCHANGED <<connections, channel_state, last_pong, websockets, now, ping>>
    /\ UNCHANGED nonRegistryVars

\* a variant of SendResult: true when no write failed
SendResultNoFailure(remaining, failed) == failed = << >>
\* `return len(self._connections.get(channel, [])) > 0`
SendResult(remaining, failed) == remaining # << >>

\* a variant of AfterFrame in which stream_end clears the flag as well
AfterFrameEndClears(state, channel, frame, success) ==
    IF ~success THEN state
    ELSE IF frame = "stream_start" THEN SetStreaming(state, channel, TRUE)
    ELSE IF frame \in {"stop_stream", "stream_end"}
      THEN SetStreaming(state, channel, FALSE)
    ELSE state
\* what OBSHarness.stream_start / stream_audio / stream_end / stop_stream do
\* with the channel state once send_to_channel has returned
AfterFrame(state, channel, frame, success) ==
    IF ~success THEN state
    ELSE IF frame = "stream_start" THEN SetStreaming(state, channel, TRUE)
    ELSE IF frame = "stop_stream" THEN SetStreaming(state, channel, FALSE)
    ELSE state

\* the request after a send has returned: the result is not looked at, the
\* next frame follows, the request ends with success after its last one
Proceed(q, success) ==
    LET last == q.k = Len(FramesOf(q.op))
    IN  [q EXCEPT !.result = success,
                  !.missed = @ \/ ~success,
                  !.snapshot = << >>, !.todo = << >>,
                  !.written = << >>, !.failed = << >>,
                  !.k = IF last THEN @ ELSE @ + 1,
                  !.pc = IF last THEN "done" ELSE "send",
                  !.status = IF last THEN "ok" ELSE @]

\* send_to_channel is entered: False when the channel has no session, else
\* the sessions are listed
SendBegin(t) ==
    LET q == callers[t]
        c == q.name
    IN  /\ q.pc = "send"
        /\ callers' = [callers EXCEPT ![t] =
             IF connections[c] = << >>
               THEN Proceed(q, FALSE)
               ELSE [q EXCEPT !.pc = "write", !.snapshot = connections[c],
                              !.todo = connections[c], !.written = << >>,
                              !.failed = << >>]]
        /\ UNCHANGED <<connections, channel_state, last_pong, websockets, now,
                       ping>>
        /\ UNCHANGED nonRegistryVars

\* one `await ws.send_json(message)`; after the last one the failed
\* sessions are disconnected, the call returns and the harness sets the
\* channel state
SendWrite(t) ==
    LET q == callers[t]
        c == q.name
        s == Head(q.todo)
        failed == IF Writable(s) THEN q.failed ELSE Append(q.failed, s)
        w == [q EXCEPT !.todo = Tail(@), !.written = Append(@, s),
                       !.failed = failed]
        reg == DisconnectAll(Registry, c, failed)
        success == SendResult(reg.connections[c], failed)
    IN  /\ q.pc = "write"
        /\ IF w.todo # << >>
             THEN /\ callers' = [callers EXCEPT ![t] = w]
                  /\ UNCHANGED <<connections, channel_state, last_pong>>
             ELSE /\ callers' = [callers EXCEPT ![t] = Proceed(w, success)]
                  /\ connections' = reg.connections
                  /\ last_pong' = reg.last_pong
                  /\ channel_state' =
                       AfterFrame(reg.channel_state, c,
                                  FramesOf(q.op)[q.k], success)
        /\ UNCHANGED <<websockets, now, ping>>
        /\ UNCHANGED nonRegistryVars

\* the overlays' sessions come and go
NextSessions ==
    \E s \in Sessions :
        \/ WsRegister(s)
        \/ WsPong(s)
        \/ WsDrop(s)
        \/ WsDisconnect(s)

\* the sessions and the requests that write to them
NextRegistry ==
    \/ NextSessions
    \/ \E s \in Sessions : WsStreamEvent(s)
    \/ \E t \in Callers :
          \/ CallBegin(t)
          \/ SendBegin(t)
          \/ SendWrite(t)

\* the sessions and the liveness task
NextLiveness ==
    \/ NextSessions
    \/ TickWake
    \/ TickPing
    \/ TickClose

(***************************************************************************)
(* Wish sessions: SantaSessionManager (santa_session.py), driven by the    *)
(* redemption handler and the dashboard's requests (app.py).               *)
(*                                                                         *)
(* A wisher is one task: the handler of a redemption, or a dashboard       *)
(* request (message, verdict, cancel).  The task that calls _process_turn  *)
(* runs the whole chain of turns and waits that follows from it, so its    *)
(* position is kept with it.  A step runs from one suspension of the task  *)
(* to the next: the reply of the model, the end of an utterance, a chat    *)
(* message taken from the queue, and the timers.  No wish dashboard is     *)
(* connected, so that _notify_state_change suspends only where the         *)
(* lifecycle lock is held around it (cancel_session).                      *)
(*                                                                         *)
(* A redemption is identified by its wisher: session_id, the redeemer and  *)
(* the wish text of a session are those of the wisher that started it.     *)
(* The conversation is kept as the number of its entries.                  *)
(***************************************************************************)
Wishers == 1..MaxWishers

\* self._session = None
NoSession ==
    [session_id     |-> 0,
     state          |-> "none",
     followup_count |-> 0,
     conversation   |-> 0,
     outcome        |-> "None"]

\* SessionData(session_id = id, ...)
SessionData(id) ==
    [session_id     |-> id,
     state          |-> "idle",
     followup_count |-> 0,
     conversation   |-> 0,
     outcome        |-> "None"]

\* the actions the response format allows
SantaActions == {"ask_followup", "await_chat", "grant", "deny"}

\* what the model replies: a JSON object, a JSON object wrapped in other
\* text, or text with no JSON object in it
SantaReplies ==
    [form : {"json", "wrapped"}, action : SantaActions]
    \cup {[form |-> "text", action |-> "none"]}

ParseResponseDenies(reply) ==
    [raw    |-> IF reply.form = "text" THEN "text" ELSE "object",
     action |-> IF reply.form = "text" THEN "deny" ELSE reply.action]

\* _parse_response: the object's action, read directly or after the regex
\* found the object; else the whole text is speech and the action is
\* await_chat
parse_response(reply) ==
    [raw    |-> IF reply.form = "text" THEN "text" ELSE "object",
     action |-> IF reply.form = "text" THEN "await_chat" ELSE reply.action]

\* no SantaSession row with this id
NoSantaRow ==
    [state |-> "none", outcome |-> "None", followup_count |-> 0,
     conversation |-> 0]

\* SantaSession(..., state="processing"), as handle_channel_point_redemption
\* adds it
NewSantaRow ==
    [state |-> "processing", outcome |-> "None", followup_count |-> 0,
     conversation |-> 0]

\* what finalize_santa_session writes to the row of session s
Finalized(s) ==
    [state |-> s.state, outcome |-> s.outcome,
     followup_count |-> s.followup_count, conversation |-> s.conversation]

NewWisher ==
    [pc        |-> "idle",
     kind      |-> "none",    \* redeem, message, verdict, cancel
     action    |-> "none",    \* santa_response.action of the running turn
     raw       |-> "none",    \* santa_response.raw: the object, or the text
     collected |-> 0,         \* len(collected_messages)
     result    |-> "none"]    \* what the request came to

SantaInit ==
    /\ wish_session = NoSession
    /\ wish_cancelled = FALSE
    /\ wish_lock = 0
    /\ message_queue = 0
    /\ max_followups \in 0..MaxFollowups
    /\ santa_rows = [id \in Wishers |-> NoSantaRow]
    /\ wishers = [t \in Wishers |-> NewWisher]
    /\ reward_enabled = TRUE

SantaIdle ==
    /\ wish_session = NoSession
    /\ wish_cancelled = FALSE
    /\ wish_lock = 0
    /\ message_queue = 0
    /\ max_followups = 0
    /\ santa_rows = [id \in Wishers |-> NoSantaRow]
    /\ wishers = [t \in Wishers |-> NewWisher]
    /\ reward_enabled = TRUE

\* the manager's call of wisher t returns: its locals are gone; after a
\* forced verdict and after a cancel the request finalizes the session
Finish(q) ==
    [q EXCEPT !.pc = IF q.kind \in {"verdict", "cancel"}
                     THEN "finalize"
                     ELSE "done",
              !.action = "none", !.raw = "none", !.collected = 0]

\* SantaSessionManager.is_active
is_active(s) == s # NoSession /\ s.state # "complete"

\* room for the entries of one more turn
CanTurn(s) == s.conversation + 2 <= MaxEntries

\* _process_turn up to the call of the model: the state and the user message
BeginTurn(s) ==
    [s EXCEPT !.state = "processing", !.conversation = @ + 1]

\* _process_turn(user_message) called by wisher t, a task of the given kind,
\* on session s: nothing when cancelled or without a session, else the turn
\* begins and awaits the model
ProcessTurn(t, kind, s) ==
    IF wish_cancelled \/ s = NoSession
    THEN /\ wish_session' = s
         /\ wishers' =
              [wishers EXCEPT ![t] = Finish([@ EXCEPT !.kind = kind])]
    ELSE /\ wish_session' = BeginTurn(s)
         /\ wishers' = [wishers EXCEPT ![t].pc = "llm", ![t].kind = kind,
                                       ![t].raw = "none",
                                       ![t].collected = 0]

\* handle_channel_point_redemption up to the start of the session: a
\* redemption is refunded when a session is active; else the reward is
\* disabled and the row of the session is added
RedeemBegin(t) ==
    /\ wishers[t].pc = "idle"
    /\ wishers' = [wishers EXCEPT
         ![t].kind = "redeem",
         ![t].pc = IF is_active(wish_session) THEN "done" ELSE "start",
         ![t].result = IF is_active(wish_session) THEN "refunded" ELSE "none"]
    /\ UNCHANGED <<wish_session, wish_cancelled, wish_lock, message_queue>>
    /\ santa_rows' = IF is_active(wish_session)
                     THEN santa_rows
                     ELSE [santa_rows EXCEPT ![t] = NewSantaRow]
    /\ UNCHANGED max_followups
    /\ reward_enabled' = (is_active(wish_session) /\ reward_enabled)
    /\ UNCHANGED nonSantaVars

StartRejectsNever(active) == FALSE

\* start_session: whether the call is turned down
StartRejects(active) == active

\* start_session under the lifecycle lock, and the first turn up to the
\* call of the model; the handler enables the reward again when the
\* session was not started
StartSession(t) ==
    /\ wishers[t].pc = "start"
    /\ wish_lock = 0
    /\ IF StartRejects(is_active(wish_session))
       THEN /\ wishers' = [wishers EXCEPT ![t].pc = "done",
                                          ![t].result = "rejected"]
            /\ UNCHANGED <<wish_session, wish_cancelled, message_queue>>
       ELSE /\ wish_session' = BeginTurn(SessionData(t))
            /\ wish_cancelled' = FALSE
            /\ message_queue' = 0
            /\ wishers' = [wishers EXCEPT ![t].pc = "llm",
                                          ![t].result = "started"]
    /\ UNCHANGED wish_lock
    /\ UNCHANGED <<max_followups, santa_rows>>
    /\ reward_enabled' = (StartRejects(is_active(wish_session)) \/ reward_enabled)
    /\ UNCHANGED nonSantaVars

\* _process_turn: the model replies; the reply is recorded and spoken
LlmReturn(t, reply) ==
    /\ wishers[t].pc = "llm"
    /\ wish_session' = [wish_session EXCEPT !.conversation = @ + 1]
    /\ wishers' = [wishers EXCEPT
         ![t].pc = "speak",
         ![t].action = parse_response(reply).action,
         ![t].raw = parse_response(reply).raw]
    /\ UNCHANGED <<wish_cancelled, wish_lock, message_queue>>
    /\ UNCHANGED <<max_followups, santa_rows>>
    /\ UNCHANGED reward_enabled
    /\ UNCHANGED nonSantaVars

\* _process_turn: the call of the model fails; the apology is spoken
LlmRaise(t) ==
    /\ wishers[t].pc = "llm"
    /\ wishers' = [wishers EXCEPT ![t].pc = "apology"]
    /\ UNCHANGED <<wish_session, wish_cancelled, wish_lock, message_queue>>
    /\ UNCHANGED <<max_followups, santa_rows>>
    /\ UNCHANGED reward_enabled
    /\ UNCHANGED nonSantaVars

\* _process_turn: after the apology the session is completed with an error
ErrorComplete(t) ==
    /\ wishers[t].pc = "apology"
    /\ wish_session' = [wish_session EXCEPT !.state = "complete",
                                            !.outcome = "error"]
    /\ wishers' = [wishers EXCEPT ![t] = Finish(@)]
    /\ UNCHANGED <<wish_cancelled, wish_lock, message_queue>>
    /\ UNCHANGED <<max_followups, santa_rows>>
    /\ UNCHANGED reward_enabled
    /\ UNCHANGED nonSantaVars

\* _handle_action(action) once the utterance is over, up to the wait it
\* starts
HandleAction(t) ==
    /\ wishers[t].pc = "speak"
    /\ LET a == wishers[t].action
           s == wish_session
       IN IF wish_cancelled \/ s = NoSession
          THEN /\ wishers' = [wishers EXCEPT ![t] = Finish(@)]
               /\ UNCHANGED wish_session
          ELSE IF a = "ask_followup" /\ s.followup_count < max_followups
          THEN /\ wish_session' =
                    [s EXCEPT !.followup_count = @ + 1,
                              !.state = "ask_followup"]
               /\ wishers' = [wishers EXCEPT ![t].pc = "followup",
                                             ![t].action = "none",
                                             ![t].raw = "none"]
          ELSE IF a \notin {"grant", "deny"}
          THEN /\ wish_session' = [s EXCEPT !.state = "await_chat"]
               /\ wishers' = [wishers EXCEPT ![t].pc = "vote",
                                             ![t].action = "none"]
          ELSE /\ wish_session' = [s EXCEPT !.state = "complete",
                                            !.outcome = a]
               /\ wishers' = [wishers EXCEPT ![t] = Finish(@)]
    /\ UNCHANGED <<wish_cancelled, wish_lock, message_queue>>
    /\ UNCHANGED <<max_followups, santa_rows>>
    /\ UNCHANGED reward_enabled
    /\ UNCHANGED nonSantaVars

\* receive_chat_message, for a message of the redeemer
ReceiveChatMessage ==
    /\ wish_session # NoSession
    /\ wish_session.state = "ask_followup"
    /\ message_queue < MaxMessages
    /\ message_queue' = message_queue + 1
    /\ UNCHANGED <<wish_session, wish_cancelled, wish_lock, wishers>>
    /\ UNCHANGED <<max_followups, santa_rows>>
    /\ UNCHANGED reward_enabled
    /\ UNCHANGED nonSantaVars

\* _wait_for_followup: a message is taken from the queue
FollowupGet(t) ==
    /\ wishers[t].pc \in {"followup", "debounce"}
    /\ message_queue > 0
    /\ message_queue' = message_queue - 1
    /\ wishers' = [wishers EXCEPT
         ![t] = IF wish_cancelled
                THEN Finish(@)
                ELSE [@ EXCEPT !.pc = "debounce", !.collected = 1]]
    /\ UNCHANGED <<wish_session, wish_cancelled, wish_lock>>
    /\ UNCHANGED <<max_followups, santa_rows>>
    /\ UNCHANGED reward_enabled
    /\ UNCHANGED nonSantaVars

\* _wait_for_followup: response_timeout passes without a first message
FollowupTimeout(t) ==
    /\ wishers[t].pc = "followup"
    /\ wish_session' = [wish_session EXCEPT !.state = "complete",
                                            !.outcome = "timeout"]
    /\ wishers' = [wishers EXCEPT ![t] = Finish(@)]
    /\ UNCHANGED <<wish_cancelled, wish_lock, message_queue>>
    /\ UNCHANGED <<max_followups, santa_rows>>
    /\ UNCHANGED reward_enabled
    /\ UNCHANGED nonSantaVars

\* _wait_for_followup: debounce_seconds pass; the collected messages are
\* the next turn
DebounceEnd(t) ==
    /\ wishers[t].pc = "debounce"
    /\ CanTurn(wish_session)
    /\ ProcessTurn(t, wishers[t].kind, wish_session)
    /\ UNCHANGED <<wish_cancelled, wish_lock, message_queue>>
    /\ UNCHANGED <<max_followups, santa_rows>>
    /\ UNCHANGED reward_enabled
    /\ UNCHANGED nonSantaVars

\* _wait_for_chat_vote: chat_vote_seconds pass; the verdict prompt is the
\* next turn
VoteEnd(t) ==
    /\ wishers[t].pc = "vote"
    /\ CanTurn(wish_session)
    /\ ProcessTurn(t, wishers[t].kind, wish_session)
    /\ UNCHANGED <<wish_cancelled, wish_lock, message_queue>>
    /\ UNCHANGED <<max_followups, santa_rows>>
    /\ UNCHANGED reward_enabled
    /\ UNCHANGED nonSantaVars

\* POST /api/santa/session/message: send_message
SendMessage(t) ==
    /\ wishers[t].pc = "idle"
    /\ is_active(wish_session)
    /\ CanTurn(wish_session)
    /\ ProcessTurn(t, "message", wish_session)
    /\ UNCHANGED <<wish_cancelled, wish_lock, message_queue>>
    /\ UNCHANGED <<max_followups, santa_rows>>
    /\ UNCHANGED reward_enabled
    /\ UNCHANGED nonSantaVars

\* POST /api/santa/session/verdict: force_verdict records the override and
\* runs a turn
ForceVerdict(t) ==
    /\ wishers[t].pc = "idle"
    /\ is_active(wish_session)
    /\ LET s == [wish_session EXCEPT !.conversation = @ + 1]
       IN /\ CanTurn(s)
          /\ ProcessTurn(t, "verdict", s)
    /\ UNCHANGED <<wish_cancelled, wish_lock, message_queue>>
    /\ UNCHANGED <<max_followups, santa_rows>>
    /\ UNCHANGED reward_enabled
    /\ UNCHANGED nonSantaVars

CancelAppliesAlways(active) == TRUE

\* santa_session_cancel: whether the request calls cancel_session
CancelApplies(active) == active

\* POST /api/santa/session/cancel with a session active: cancel_session
\* takes the lifecycle lock, completes the session and notifies
CancelSession(t) ==
    /\ wishers[t].pc = "idle"
    /\ CancelApplies(is_active(wish_session))
    /\ wish_lock = 0
    /\ IF wish_session # NoSession
       THEN /\ wish_lock' = t
            /\ wish_session' = [wish_session EXCEPT !.state = "complete",
                                                    !.outcome = "cancelled"]
            /\ wish_cancelled' = TRUE
            /\ wishers' = [wishers EXCEPT ![t].pc = "notify",
                                          ![t].kind = "cancel",
                                          ![t].result = "cancelled"]
       ELSE /\ wishers' = [wishers EXCEPT ![t].pc = "done",
                                          ![t].kind = "cancel",
                                          ![t].result = "cancelled"]
            /\ UNCHANGED <<wish_lock, wish_session, wish_cancelled>>
    /\ UNCHANGED message_queue
    /\ UNCHANGED <<max_followups, santa_rows>>
    /\ UNCHANGED reward_enabled
    /\ UNCHANGED nonSantaVars

\* POST /api/santa/session/cancel with no session active: nothing to cancel
CancelRefused(t) ==
    /\ wishers[t].pc = "idle"
    /\ ~CancelApplies(is_active(wish_session))
    /\ wishers' = [wishers EXCEPT ![t].pc = "done",
                                  ![t].kind = "cancel",
                                  ![t].result = "nothing"]
    /\ UNCHANGED <<wish_session, wish_cancelled, wish_lock, message_queue>>
    /\ UNCHANGED <<max_followups, santa_rows>>
    /\ UNCHANGED reward_enabled
    /\ UNCHANGED nonSantaVars

\* finalize_santa_session: the row of the current session gets its state,
\* outcome, followup_count and conversation, and the reward is enabled
Finalize(t) ==
    /\ wishers[t].pc = "finalize"
    /\ santa_rows' =
         IF wish_session = NoSession
         THEN santa_rows
         ELSE [santa_rows EXCEPT
                 ![wish_session.session_id] = Finalized(wish_session)]
    /\ wishers' = [wishers EXCEPT ![t].pc = "done"]
    /\ UNCHANGED <<wish_session, wish_cancelled, wish_lock, message_queue>>
    /\ UNCHANGED max_followups
    /\ reward_enabled' = (wish_session # NoSession \/ reward_enabled)
    /\ UNCHANGED nonSantaVars

\* the dashboard sends its next request once the last one is answered
DashboardAgain(t) ==
    /\ wishers[t].pc = "done"
    /\ wishers[t].kind # "redeem"
    /\ wishers' = [wishers EXCEPT ![t] = NewWisher]
    /\ UNCHANGED <<wish_session, wish_cancelled, wish_lock, message_queue>>
    /\ UNCHANGED <<max_followups, santa_rows>>
    /\ UNCHANGED reward_enabled
    /\ UNCHANGED nonSantaVars

\* cancel_session: the notification is over, the lock is released
CancelNotified(t) ==
    /\ wishers[t].pc = "notify"
    /\ wish_lock' = 0
    /\ wishers' = [wishers EXCEPT ![t] = Finish(@)]
    /\ UNCHANGED <<wish_session, wish_cancelled, message_queue>>
    /\ UNCHANGED <<max_followups, santa_rows>>
    /\ UNCHANGED reward_enabled
    /\ UNCHANGED nonSantaVars

\* PUT /api/santa/config: update_santa_config hands the new setting to the
\* manager
UpdateConfig(v) ==
    /\ v # max_followups
    /\ max_followups' = v
    /\ UNCHANGED <<wish_session, wish_cancelled, wish_lock, message_queue,
                   santa_rows, wishers>>
    /\ UNCHANGED reward_enabled
    /\ UNCHANGED nonSantaVars

NextSanta ==
    \/ \E t \in Wishers :
         \/ RedeemBegin(t)
         \/ StartSession(t)
         \/ \E reply \in SantaReplies : LlmReturn(t, reply)
         \/ LlmRaise(t)
         \/ ErrorComplete(t)
         \/ HandleAction(t)
         \/ FollowupGet(t)
         \/ FollowupTimeout(t)
         \/ DebounceEnd(t)
         \/ VoteEnd(t)
         \/ SendMessage(t)
         \/ ForceVerdict(t)
         \/ CancelSession(t)
         \/ CancelRefused(t)
         \/ Finalize(t)
         \/ DashboardAgain(t)
         \/ CancelNotified(t)
    \/ ReceiveChatMessage
    \/ \E v \in 0..MaxFollowups : UpdateConfig(v)

(***************************************************************************)
(* The followup waiter in time: _wait_for_followup (santa_session.py)      *)
(* from its entry to the turn or the timeout it ends with, against the     *)
(* redeemer's chat messages and the event loop's clock.  The session is in *)
(* ask_followup and is not cancelled; the clock starts at 0 with the wait. *)
(* A message put on the queue wakes the waiter before the clock moves on,  *)
(* and a timer fires in the second it is due.                              *)
(***************************************************************************)
Replies == 1..MaxReplies

\* first_message_time: float | None = None
NoneTime == -1

NewWaiter ==
    [pc                 |-> "wait",      \* wait, turn, timeout
     collected_messages |-> << >>,
     first_message_time |-> NoneTime,
     user_message       |-> << >>,       \* what _process_turn is called with
     ended              |-> NoneTime]    \* when the collection ended

FollowupInit ==
    /\ waiter = NewWaiter
    /\ reply_queue = << >>
    /\ loop_time = 0
    /\ debounce_seconds \in 1..MaxDebounce
    /\ response_timeout \in 1..MaxTimeout
    /\ replies = << >>

FollowupIdle ==
    /\ waiter = NewWaiter
    /\ reply_queue = << >>
    /\ loop_time = 0
    /\ debounce_seconds = 1
    /\ response_timeout = 1
    /\ replies = << >>

\* " ".join(collected_messages)
RECURSIVE Join(_)
Join(messages) ==
    IF messages = << >> THEN << >>
    ELSE IF Len(messages) = 1 THEN <<Head(messages)>>
    ELSE <<Head(messages), " ">> \o Join(Tail(messages))

\* the time at which the pending asyncio.wait_for gives up
Deadline(w) ==
    IF w.first_message_time = NoneTime
    THEN response_timeout
    ELSE w.first_message_time + debounce_seconds

\* a second passes
ClockTick ==
    /\ loop_time < MaxClock
    /\ waiter.pc = "wait" => reply_queue = << >> /\ loop_time < Deadline(waiter)
    /\ loop_time' = loop_time + 1
    /\ UNCHANGED <<waiter, reply_queue, debounce_seconds, response_timeout,
                   replies>>
    /\ UNCHANGED nonFollowupVars

\* receive_chat_message: the redeemer's message is queued while the session
\* is in ask_followup
ReplyArrives(r) ==
    /\ waiter.pc = "wait"
    /\ r = Len(replies) + 1
    /\ reply_queue' = Append(reply_queue, r)
    /\ replies' = Append(replies, [message |-> r, time |-> loop_time])
    /\ UNCHANGED <<waiter, loop_time, debounce_seconds, response_timeout>>
    /\ UNCHANGED nonFollowupVars

\* the remaining debounce time is used up: the loop is left and the
\* collected messages are the next turn
EndCollection(w) ==
    [w EXCEPT !.pc = "turn",
              !.user_message = Join(w.collected_messages),
              !.ended = loop_time]

\* _wait_for_followup: the wait for the queue returns a message
WaiterGets ==
    /\ waiter.pc = "wait"
    /\ reply_queue # << >>
    /\ reply_queue' = Tail(reply_queue)
    /\ LET got == [waiter EXCEPT
                     !.collected_messages = Append(@, Head(reply_queue)),
                     !.first_message_time =
                         IF @ = NoneTime THEN loop_time ELSE @]
       IN waiter' = IF debounce_seconds - (loop_time - got.first_message_time)
                         <= 0
                    THEN EndCollection(got)
                    ELSE got
    /\ UNCHANGED <<loop_time, debounce_seconds, response_timeout, replies>>
    /\ UNCHANGED nonFollowupVars

\* _wait_for_followup: the wait for the queue times out
WaiterTimesOut ==
    /\ waiter.pc = "wait"
    /\ loop_time >= Deadline(waiter)
    /\ waiter' = IF waiter.first_message_time = NoneTime
                 THEN [waiter EXCEPT !.pc = "timeout", !.ended = loop_time]
                 ELSE EndCollection(waiter)
    /\ UNCHANGED <<reply_queue, loop_time, debounce_seconds,
                   response_timeout, replies>>
    /\ UNCHANGED nonFollowupVars

NextFollowup ==
    \/ ClockTick
    \/ \E r \in Replies : ReplyArrives(r)
    \/ WaiterGets
    \/ WaiterTimesOut

(***************************************************************************)
(* The speech lock: SantaSessionManager._speak (santa_session.py) called   *)
(* by concurrent tasks: the turns of a session, the farewell after a       *)
(* followup timeout, the apology after a failed turn, speak_direct and     *)
(* interrupt_with_message.  self._speech_lock is an asyncio.Lock: a        *)
(* caller takes it at once when it is free and nobody waits, else it       *)
(* queues; a release lets the first in the queue go on.                    *)
(***************************************************************************)
Speakers == 1..MaxSpeakers

\* the places _speak is called from
SpeakSources == {"turn", "farewell", "apology", "direct", "interrupt"}

NewSpeaker == [pc |-> "idle", source |-> "none"]

SpeechInit ==
    /\ speech_lock = [locked |-> FALSE, waiters |-> << >>]
    /\ speakers = [t \in Speakers |-> NewSpeaker]

SpeechIdle == SpeechInit

CanTakeAlways(l) == TRUE

\* asyncio.Lock.acquire returns without waiting
CanTake(l) == ~l.locked /\ l.waiters = << >>

\* async with self._speech_lock, on entry
SpeakBegin(t, source) ==
    /\ speakers[t].pc = "idle"
    /\ IF CanTake(speech_lock)
       THEN /\ speech_lock' = [speech_lock EXCEPT !.locked = TRUE]
            /\ speakers' = [speakers EXCEPT ![t] =
                 [pc |-> "post", source |-> source]]
       ELSE /\ speech_lock' = [speech_lock EXCEPT !.waiters = Append(@, t)]
            /\ speakers' = [speakers EXCEPT ![t] =
                 [pc |-> "lock", source |-> source]]
    /\ UNCHANGED nonSpeechVars

\* the first waiter gets the released lock and posts its speak request
SpeakAcquire(t) ==
    /\ speakers[t].pc = "lock"
    /\ ~speech_lock.locked
    /\ Head(speech_lock.waiters) = t
    /\ speech_lock' = [locked |-> TRUE, waiters |-> Tail(speech_lock.waiters)]
    /\ speakers' = [speakers EXCEPT ![t].pc = "post"]
    /\ UNCHANGED nonSpeechVars

\* the speak request is answered with 200: the estimated duration is slept
PostAnswered(t) ==
    /\ speakers[t].pc = "post"
    /\ speakers' = [speakers EXCEPT ![t].pc = "sleep"]
    /\ UNCHANGED speech_lock
    /\ UNCHANGED nonSpeechVars

\* the speak request fails (another status, or an exception that _speak
\* logs): the lock is released
PostFails(t) ==
    /\ speakers[t].pc = "post"
    /\ speech_lock' = [speech_lock EXCEPT !.locked = FALSE]
    /\ speakers' = [speakers EXCEPT ![t] = NewSpeaker]
    /\ UNCHANGED nonSpeechVars

\* the estimated duration is over: the lock is released
SleepEnds(t) ==
    /\ speakers[t].pc = "sleep"
    /\ speech_lock' = [speech_lock EXCEPT !.locked = FALSE]
    /\ speakers' = [speakers EXCEPT ![t] = NewSpeaker]
    /\ UNCHANGED nonSpeechVars

NextSpeech ==
    \E t \in Speakers :
        \/ \E source \in SpeakSources : SpeakBegin(t, source)
        \/ SpeakAcquire(t)
        \/ PostAnswered(t)
        \/ PostFails(t)
        \/ SleepEnds(t)

(***************************************************************************)
(* The OpenRouter client (openrouter.py): stream_chat and chat wrap one    *)
(* upstream attempt in the same retry loop.  An attempt of chat posts the  *)
(* request and reads the answer; an attempt of stream_chat opens the event *)
(* stream, checks the status and then yields the tokens of the events as   *)
(* they come, so it can fail after tokens were handed to the caller.       *)
(***************************************************************************)
max_retries == 3

retry_delay == 1

RETRYABLE_STATUS_CODES == {429, 500, 502, 503, 504}

\* the status codes the upstream answers with
StatusCodes == {200, 400, 401, 429, 500, 502, 503, 504}

\* the "code" of an error object in the body
ErrorCodes == {"rate_limit_exceeded", "server_error", "invalid_request"}

CallKinds == {"stream_chat", "chat"}

\* the ways an attempt fails: OpenRouterError from a status, from an error
\* object, from an answer without choices, or an httpx.HTTPError
Failures ==
    [class : {"status"}, status : StatusCodes \ {200}, code : {"none"}]
    \cup [class : {"code"}, status : {200}, code : ErrorCodes]
    \cup [class : {"no_choices", "http"}, status : {0}, code : {"none"}]

StatusFailure(status) == [class |-> "status", status |-> status, code |-> "none"]

CodeFailure(code) == [class |-> "code", status |-> 200, code |-> code]

HttpFailure == [class |-> "http", status |-> 0, code |-> "none"]

NoChoices == [class |-> "no_choices", status |-> 0, code |-> "none"]

RetryableAlways(f) == TRUE

\* e.retryable of the error an attempt raises; an httpx.HTTPError is
\* wrapped as retryable
Retryable(f) ==
    CASE f.class = "status" -> f.status \in RETRYABLE_STATUS_CODES
      [] f.class = "code" -> f.code \in {"rate_limit_exceeded", "server_error"}
      [] f.class = "http" -> TRUE
      [] OTHER -> FALSE

RECURSIVE Pow2(_)
Pow2(n) == IF n = 0 THEN 1 ELSE 2 * Pow2(n - 1)

\* delay = self.retry_delay * (2 ** attempt)
Delay(attempt) == retry_delay * Pow2(attempt)

NoCall ==
    [kind |-> "none", pc |-> "idle", attempt |-> 0, failures |-> << >>,
     slept |-> << >>, yielded |-> 0,
     sources |-> << >>]   \* per token yielded, the attempt it came from

RetryInit ==
    /\ llm_call = NoCall
    /\ llm_calls = 0

RetryIdle == RetryInit

\* a caller calls stream_chat or chat: for attempt in range(max_retries)
ChatCallBegin(kind) ==
    /\ llm_call.pc \in {"idle", "returned", "raised"}
    /\ llm_calls < MaxCalls
    /\ llm_calls' = llm_calls + 1
    /\ llm_call' = [NoCall EXCEPT !.kind = kind, !.pc = "attempt"]
    /\ UNCHANGED nonRetryVars

\* the except clauses of the loop: raise, or sleep and go round again
AttemptFails(f) ==
    llm_call' =
        IF ~Retryable(f) \/ llm_call.attempt = max_retries - 1
        THEN [llm_call EXCEPT !.pc = "raised",
                              !.failures = Append(@, f)]
        ELSE [llm_call EXCEPT !.pc = "sleep",
                              !.failures = Append(@, f),
                              !.slept = Append(@, Delay(llm_call.attempt))]

\* the upstream answers with a status other than 200
StatusError(status) ==
    /\ llm_call.pc = "attempt"
    /\ status # 200
    /\ AttemptFails(StatusFailure(status))
    /\ UNCHANGED llm_calls
    /\ UNCHANGED nonRetryVars

\* the request, or the reading of the stream, raises an httpx.HTTPError
HttpError ==
    /\ llm_call.pc \in {"attempt", "streaming"}
    /\ AttemptFails(HttpFailure)
    /\ UNCHANGED llm_calls
    /\ UNCHANGED nonRetryVars

\* the body, or an event of the stream, holds an error object
ErrorObject(code) ==
    /\ \/ llm_call.pc = "attempt" /\ llm_call.kind = "chat"
       \/ llm_call.pc = "streaming"
    /\ AttemptFails(CodeFailure(code))
    /\ UNCHANGED llm_calls
    /\ UNCHANGED nonRetryVars

\* _chat_attempt: the answer has no choices
ChatNoChoices ==
    /\ llm_call.pc = "attempt"
    /\ llm_call.kind = "chat"
    /\ AttemptFails(NoChoices)
    /\ UNCHANGED llm_calls
    /\ UNCHANGED nonRetryVars

\* _chat_attempt returns the content
ChatReturns ==
    /\ llm_call.pc = "attempt"
    /\ llm_call.kind = "chat"
    /\ llm_call' = [llm_call EXCEPT !.pc = "returned"]
    /\ UNCHANGED llm_calls
    /\ UNCHANGED nonRetryVars

\* _stream_chat_attempt: the event stream is open with status 200
StreamOpens ==
    /\ llm_call.pc = "attempt"
    /\ llm_call.kind = "stream_chat"
    /\ llm_call' = [llm_call EXCEPT !.pc = "streaming"]
    /\ UNCHANGED llm_calls
    /\ UNCHANGED nonRetryVars

\* an event with content: the token is yielded to the caller
StreamYields ==
    /\ llm_call.pc = "streaming"
    /\ llm_call.yielded < MaxYielded
    /\ llm_call' = [llm_call EXCEPT
                       !.yielded = @ + 1,
                       !.sources = Append(@, llm_call.attempt)]
    /\ UNCHANGED llm_calls
    /\ UNCHANGED nonRetryVars

\* [DONE], or the end of the events: stream_chat returns
StreamDone ==
    /\ llm_call.pc = "streaming"
    /\ llm_call' = [llm_call EXCEPT !.pc = "returned"]
    /\ UNCHANGED llm_calls
    /\ UNCHANGED nonRetryVars

\* await asyncio.sleep(delay) is over: the next round of the loop
RetrySleepEnds ==
    /\ llm_call.pc = "sleep"
    /\ llm_call' = [llm_call EXCEPT !.pc = "attempt", !.attempt = @ + 1]
    /\ UNCHANGED llm_calls
    /\ UNCHANGED nonRetryVars

NextRetry ==
    \/ \E kind \in CallKinds : ChatCallBegin(kind)
    \/ \E status \in StatusCodes : StatusError(status)
    \/ HttpError
    \/ \E code \in ErrorCodes : ErrorObject(code)
    \/ ChatNoChoices
    \/ ChatReturns
    \/ StreamOpens
    \/ StreamYields
    \/ StreamDone
    \/ RetrySleepEnds

(***************************************************************************)
(* The Cartesia client (tts/cartesia_ws.py): _receive_loop reads the       *)
(* frames of the socket one by one and puts chunks of audio and word       *)
(* timings on the queue that iter_audio_with_timing reads.  The queue has  *)
(* no size limit, so a put never waits and the handling of one frame is    *)
(* one step.                                                               *)
(***************************************************************************)
\* the audio of a chunk frame: empty data, or one of two pieces
AudioData == {"", "a", "b"}

\* word_timestamps of a timestamps frame: the words, and how many start
\* and end times come with them
WordLists == {<< >>, <<"hi">>, <<"hi", "there">>}

\* the frames of the socket; "foreign" is a frame of another context_id,
\* "other" a frame of a type the loop does not know
CtFrames ==
    [type : {"chunk"}, data : AudioData, words : {<< >>}, times : {0}]
    \cup [type : {"timestamps"}, data : {""}, words : WordLists,
          times : 0..MaxWords]
    \cup [type : {"done", "error", "other", "foreign"}, data : {""},
          words : {<< >>}, times : {0}]

\* zip(words, starts, ends) stops at the shortest list
Zip(words, times) ==
    SubSeq(words, 1, IF Len(words) < times THEN Len(words) ELSE times)

\* AudioChunkWithTiming(audio=b"".join(pending_audio), words=pending_words)
CtChunk(audio, words) == [audio |-> audio, words |-> words]

CartesiaInit ==
    /\ ct = [pc |-> "loop", pending_audio |-> << >>, pending_words |-> << >>,
             closed |-> FALSE, ws |-> "open", closes |-> 0,
             close_raised |-> FALSE]
    /\ ct_queue = << >>
    /\ ct_frames = << >>
    /\ ct_out = << >>

CartesiaIdle == CartesiaInit

EmitsOnTimingOnly(audio, words) == FALSE

\* the chunk branch: if pending_audio and not pending_words
EmitsOnAudio(audio, words) == audio # << >> /\ words = << >>

\* if msg_type == "chunk"
OnChunk(frame) ==
    LET audio == IF frame.data # ""
                 THEN Append(ct.pending_audio, frame.data)
                 ELSE ct.pending_audio
    IN  IF frame.data # "" /\ EmitsOnAudio(audio, ct.pending_words)
        THEN /\ ct_queue' = Append(ct_queue, CtChunk(audio, << >>))
             /\ ct' = [ct EXCEPT !.pending_audio = << >>]
        ELSE /\ ct_queue' = ct_queue
             /\ ct' = [ct EXCEPT !.pending_audio = audio]

\* elif msg_type == "timestamps"
OnTimestamps(frame) ==
    LET words == ct.pending_words \o Zip(frame.words, frame.times)
    IN  IF ct.pending_audio # << >> \/ words # << >>
        THEN /\ ct_queue' = Append(ct_queue, CtChunk(ct.pending_audio, words))
             /\ ct' = [ct EXCEPT !.pending_audio = << >>,
                                 !.pending_words = << >>]
        ELSE /\ ct_queue' = ct_queue
             /\ ct' = [ct EXCEPT !.pending_words = words]

\* elif msg_type == "done": flush, then the end of the stream
OnDone ==
    /\ ct_queue' =
         IF ct.pending_audio # << >> \/ ct.pending_words # << >>
         THEN ct_queue \o <<CtChunk(ct.pending_audio, ct.pending_words),
                            EndMarker>>
         ELSE Append(ct_queue, EndMarker)
    /\ ct' = [ct EXCEPT !.pc = "ended"]

\* elif msg_type == "error": the end of the stream, then the loop raises
\* CartesiaWSError, which its own `except Exception` catches: the end of
\* the stream once more, and the task ends with the error
OnError ==
    /\ ct_queue' = ct_queue \o <<EndMarker, EndMarker>>
    /\ ct' = [ct EXCEPT !.pc = "failed"]

\* async for message in self._ws: one frame of the socket
CtReceive(frame) ==
    /\ ct.pc = "loop"
    /\ Len(ct_frames) < MaxFrames
    /\ ct_frames' = Append(ct_frames, frame)
    /\ IF ct.closed
       THEN /\ ct' = [ct EXCEPT !.pc = "ended"]
            /\ ct_queue' = ct_queue
       ELSE CASE frame.type = "chunk" -> OnChunk(frame)
              [] frame.type = "timestamps" -> OnTimestamps(frame)
              [] frame.type = "done" -> OnDone
              [] frame.type = "error" -> OnError
              [] OTHER -> UNCHANGED <<ct, ct_queue>>
    /\ UNCHANGED ct_out
    /\ UNCHANGED nonCartesiaVars

\* the socket is closed by the other side: except ConnectionClosed
CtConnectionClosed ==
    /\ ct.pc = "loop"
    /\ ct_queue' = Append(ct_queue, EndMarker)
    /\ ct' = [ct EXCEPT !.pc = "ended", !.ws = "closed"]
    /\ UNCHANGED <<ct_frames, ct_out>>
    /\ UNCHANGED nonCartesiaVars

\* close(): self._closed = True; the receive task is cancelled and
\* awaited, CancelledError swallowed, and the error of a task that had
\* failed raised again; then the socket is closed.  CancelledError is not
\* an Exception: neither except clause of the cancelled loop runs and
\* nothing is put on the queue
CtClose ==
    /\ ct.closes < MaxCloses
    /\ ct' = [ct EXCEPT
                !.closed = TRUE,
                !.closes = @ + 1,
                !.pc = IF @ = "loop" THEN "cancelled" ELSE @,
                !.close_raised = (ct.pc = "failed"),
                !.ws = IF ct.pc = "failed" THEN @ ELSE "closed"]
    /\ UNCHANGED <<ct_queue, ct_frames, ct_out>>
    /\ UNCHANGED nonCartesiaVars

\* iter_audio_with_timing: chunk = await self._chunk_queue.get()
CtGet ==
    /\ ct_queue # << >>
    /\ IF ct_out = << >> THEN TRUE ELSE ct_out[Len(ct_out)] # EndMarker
    /\ ct_queue' = Tail(ct_queue)
    /\ ct_out' = Append(ct_out, Head(ct_queue))
    /\ UNCHANGED <<ct, ct_frames>>
    /\ UNCHANGED nonCartesiaVars

NextCartesia ==
    \/ \E frame \in CtFrames : CtReceive(frame)
    \/ CtConnectionClosed
    \/ CtClose
    \/ CtGet

(***************************************************************************)
(* Voice settings on the way upstream (tts/provider.py, tts_pipeline.py,   *)
(* elevenlabs_ws.py, tts/cartesia_ws.py): the streamer hands the settings  *)
(* of its configuration to create_tts_client and get_connect_kwargs, which *)
(* validate them against the provider's schema, and the client sends the   *)
(* speed upstream.  Speeds are in tenths.                                  *)
(***************************************************************************)
Providers == {"elevenlabs", "cartesia"}

\* the speeds a configuration may carry
Speeds == 0..MaxSpeed

\* ElevenLabsSettings.speed: Field(ge=0.7, le=1.2)
ElevenLabsMinSpeed == 7
ElevenLabsMaxSpeed == 12

\* CartesiaSettings.speed: Field(ge=0.6, le=1.5)
CartesiaMinSpeed == 6
CartesiaMaxSpeed == 15

\* ElevenLabsSettings(**settings) / CartesiaSettings(**settings) does not
\* raise a ValidationError
Validates(provider, speed) ==
    IF provider = "elevenlabs"
      THEN ElevenLabsMinSpeed <= speed /\ speed <= ElevenLabsMaxSpeed
      ELSE CartesiaMinSpeed <= speed /\ speed <= CartesiaMaxSpeed

\* max(0.6, min(1.5, self._speed))
clamped_speed(speed) ==
    LET least == IF CartesiaMaxSpeed < speed THEN CartesiaMaxSpeed ELSE speed
    IN  IF CartesiaMinSpeed > least THEN CartesiaMinSpeed ELSE least

NoSpeed == -1

VoiceInit ==
    voice \in [provider : Providers, speed : Speeds, pc : {"new"},
               sent : {NoSpeed}]

VoiceIdle ==
    voice = [provider |-> "elevenlabs", speed |-> 10, pc |-> "new",
             sent |-> NoSpeed]

\* stream(): self._tts_client = create_tts_client(provider, settings); a
\* ValidationError leaves stream() through its except clause
VoiceCreateClient ==
    /\ voice.pc = "new"
    /\ voice' = [voice EXCEPT !.pc =
         IF Validates(voice.provider, voice.speed) THEN "created"
         ELSE "rejected"]
    /\ UNCHANGED nonVoiceVars

\* get_connect_kwargs validates again, then connect(**connect_kwargs): the
\* ElevenLabs client sends the speed in its first message, the Cartesia
\* client keeps it in self._speed
VoiceConnect ==
    /\ voice.pc = "created"
    /\ voice' =
         IF ~Validates(voice.provider, voice.speed)
           THEN [voice EXCEPT !.pc = "rejected"]
           ELSE IF voice.provider = "elevenlabs"
             THEN [voice EXCEPT !.pc = "connected", !.sent = voice.speed]
             ELSE [voice EXCEPT !.pc = "connected"]
    /\ UNCHANGED nonVoiceVars

\* send_text: the Cartesia client builds its message with the clamped
\* speed; the ElevenLabs client sends text alone
VoiceSendText ==
    /\ voice.pc = "connected"
    /\ voice' =
         IF voice.provider = "cartesia"
           THEN [voice EXCEPT !.pc = "speaking",
                              !.sent = clamped_speed(voice.speed)]
           ELSE [voice EXCEPT !.pc = "speaking"]
    /\ UNCHANGED nonVoiceVars

NextVoice ==
    \/ VoiceCreateClient
    \/ VoiceConnect
    \/ VoiceSendText

(***************************************************************************)
(* Character update (app.py, update_character): each request opens its own *)
(* database session, reads the character, compares its updated_at with the *)
(* request's expected_updated_at, sets the fields and commits.  The read   *)
(* and the commit are awaited, so other requests run between them.         *)
(***************************************************************************)
Updaters == 1..MaxUpdaters

\* expected_updated_at is None: the request skips the comparison
NoStamp == -1

NewUpdater == [pc |-> "idle", expected_updated_at |-> NoStamp, read |-> NoStamp]

UpdateInit ==
    /\ character_row = [updated_at |-> 0, written_by |-> << >>]
    /\ updaters = [r \in Updaters |-> NewUpdater]
    /\ utcnow = 0

UpdateIdle == UpdateInit

\* the request arrives with the updated_at its client once loaded, or
\* with none, and its session reads the row: await
\* session.execute(select(Character)...)
UpdateSelect(r, token) ==
    /\ updaters[r].pc = "idle"
    /\ token <= utcnow
    /\ updaters' = [updaters EXCEPT ![r] =
         [pc |-> "read", expected_updated_at |-> token,
          read |-> character_row.updated_at]]
    /\ UNCHANGED <<character_row, utcnow>>
    /\ UNCHANGED nonUpdateVars

\* the comparison of the row as it was read with the token: 409 on a
\* difference; else the fields and updated_at = datetime.utcnow() are set
\* on the session's object and the commit is awaited
UpdateCheck(r) ==
    /\ updaters[r].pc = "read"
    /\ IF /\ updaters[r].expected_updated_at # NoStamp
          /\ updaters[r].read # updaters[r].expected_updated_at
       THEN /\ updaters' = [updaters EXCEPT ![r].pc = "conflict"]
            /\ UNCHANGED utcnow
       ELSE /\ utcnow < MaxStamp
            /\ utcnow' = utcnow + 1
            /\ updaters' = [updaters EXCEPT ![r].pc = "commit",
                                            ![r].read = utcnow + 1]
    /\ UNCHANGED character_row
    /\ UNCHANGED nonUpdateVars

\* await session.commit(): the UPDATE names the row by its key alone
UpdateCommit(r) ==
    /\ updaters[r].pc = "commit"
    /\ character_row' = [updated_at |-> updaters[r].read,
                         written_by |-> Append(character_row.written_by, r)]
    /\ updaters' = [updaters EXCEPT ![r].pc = "applied"]
    /\ UNCHANGED utcnow
    /\ UNCHANGED nonUpdateVars

NextUpdate ==
    \E r \in Updaters :
        \/ \E token \in {NoStamp} \cup 0..MaxStamp : UpdateSelect(r, token)
        \/ UpdateCheck(r)
        \/ UpdateCommit(r)

(***************************************************************************)
(* Specifications                                                          *)
(***************************************************************************)
InitStreamer ==
    StreamerInit /\ WordsIdle /\ CoordIdle /\ MemoryIdle /\ RegistryIdle
    /\ SantaIdle /\ FollowupIdle
    /\ SpeechIdle
    /\ RetryIdle
    /\ CartesiaIdle
    /\ VoiceIdle
    /\ UpdateIdle
SpecStreamer == InitStreamer /\ [][NextStreamer]_vars

InitWords ==
    WordsInit /\ StreamerIdle /\ CoordIdle /\ MemoryIdle /\ RegistryIdle
    /\ SantaIdle /\ FollowupIdle
    /\ SpeechIdle
    /\ RetryIdle
    /\ CartesiaIdle
    /\ VoiceIdle
    /\ UpdateIdle
SpecWords == InitWords /\ [][NextWords]_vars

Init ==
    CoordInit /\ StreamerIdle /\ WordsIdle /\ MemoryIdle /\ RegistryIdle
    /\ SantaIdle /\ FollowupIdle
    /\ SpeechIdle
    /\ RetryIdle
    /\ CartesiaIdle
    /\ VoiceIdle
    /\ UpdateIdle
Spec == Init /\ [][Next]_vars

InitMemory ==
    MemoryInit /\ StreamerIdle /\ WordsIdle /\ CoordIdle /\ RegistryIdle
    /\ SantaIdle /\ FollowupIdle
    /\ SpeechIdle
    /\ RetryIdle
    /\ CartesiaIdle
    /\ VoiceIdle
    /\ UpdateIdle
SpecMemory == InitMemory /\ [][NextMemory]_vars

InitRegistry ==
    RegistryInit /\ StreamerIdle /\ WordsIdle /\ CoordIdle /\ MemoryIdle
    /\ SantaIdle /\ FollowupIdle
    /\ SpeechIdle
    /\ RetryIdle
    /\ CartesiaIdle
    /\ VoiceIdle
    /\ UpdateIdle
SpecRegistry == InitRegistry /\ [][NextRegistry]_vars

InitLiveness == InitRegistry
SpecLiveness == InitLiveness /\ [][NextLiveness]_vars

InitSanta ==
    SantaInit /\ StreamerIdle /\ WordsIdle /\ CoordIdle /\ MemoryIdle
    /\ RegistryIdle /\ FollowupIdle
    /\ SpeechIdle
    /\ RetryIdle
    /\ CartesiaIdle
    /\ VoiceIdle
    /\ UpdateIdle
SpecSanta == InitSanta /\ [][NextSanta]_vars

\* a task that is running makes its next step: the reply of the model, the
\* end of an utterance, the timers, the lock. New redemptions and dashboard
\* requests are the environment's and are not forced.
WisherStep ==
    \E t \in Wishers :
        \/ StartSession(t)
        \/ \E reply \in SantaReplies : LlmReturn(t, reply)
        \/ LlmRaise(t)
        \/ ErrorComplete(t)
        \/ HandleAction(t)
        \/ FollowupGet(t)
        \/ FollowupTimeout(t)
        \/ DebounceEnd(t)
        \/ VoteEnd(t)
        \/ Finalize(t)
        \/ CancelNotified(t)

SpecSantaLive == InitSanta /\ [][NextSanta]_vars /\ WF_vars(WisherStep)

InitFollowup ==
    FollowupInit /\ StreamerIdle /\ WordsIdle /\ CoordIdle /\ MemoryIdle
    /\ RegistryIdle /\ SantaIdle
    /\ SpeechIdle
    /\ RetryIdle
    /\ CartesiaIdle
    /\ VoiceIdle
    /\ UpdateIdle
SpecFollowup == InitFollowup /\ [][NextFollowup]_vars

InitSpeech ==
    SpeechInit
    /\ StreamerIdle
    /\ WordsIdle
    /\ CoordIdle
    /\ MemoryIdle
    /\ RegistryIdle
    /\ SantaIdle
    /\ FollowupIdle
    /\ RetryIdle
    /\ CartesiaIdle
    /\ VoiceIdle
    /\ UpdateIdle
SpecSpeech == InitSpeech /\ [][NextSpeech]_vars

InitRetry ==
    RetryInit
    /\ StreamerIdle
    /\ WordsIdle
    /\ CoordIdle
    /\ MemoryIdle
    /\ RegistryIdle
    /\ SantaIdle
    /\ FollowupIdle
    /\ SpeechIdle
    /\ CartesiaIdle
    /\ VoiceIdle
    /\ UpdateIdle
SpecRetry == InitRetry /\ [][NextRetry]_vars

InitCartesia ==
    CartesiaInit
    /\ StreamerIdle
    /\ WordsIdle
    /\ CoordIdle
    /\ MemoryIdle
    /\ RegistryIdle
    /\ SantaIdle
    /\ FollowupIdle
    /\ RetryIdle
    /\ SpeechIdle
    /\ VoiceIdle
    /\ UpdateIdle
SpecCartesia == InitCartesia /\ [][NextCartesia]_vars

\* the consumer of iter_audio_with_timing takes what is on the queue
SpecCartesiaLive ==
    InitCartesia /\ [][NextCartesia]_vars /\ WF_vars(CtGet)

InitVoice ==
    VoiceInit
    /\ StreamerIdle
    /\ WordsIdle
    /\ CoordIdle
    /\ MemoryIdle
    /\ RegistryIdle
    /\ SantaIdle
    /\ FollowupIdle
    /\ CartesiaIdle
    /\ RetryIdle
    /\ SpeechIdle
    /\ UpdateIdle
SpecVoice == InitVoice /\ [][NextVoice]_vars

InitUpdate ==
    UpdateInit
    /\ StreamerIdle
    /\ WordsIdle
    /\ CoordIdle
    /\ MemoryIdle
    /\ RegistryIdle
    /\ SantaIdle
    /\ FollowupIdle
    /\ CartesiaIdle
    /\ RetryIdle
    /\ SpeechIdle
    /\ VoiceIdle
SpecUpdate == InitUpdate /\ [][NextUpdate]_vars

(***************************************************************************)
(* Claims about the generation coordinator (checked under Spec)            *)
(***************************************************************************)
\* the requests whose generation is running for character c
Running(c) ==
    { r \in Requests : req[r].name = c /\ req[r].pc = "streaming" }

\* C1: in every reachable state and for every character, at most one
\* generation (speak or chat) is running, and it is the one installed in
\* active_generations; nothing is installed that is not running.
C1_AtMostOneActiveGeneration ==
    \A c \in Names :
        /\ Cardinality(Running(c)) <= 1
        /\ \A r \in Running(c) : active_generations[c] = r
        /\ active_generations[c] # NoRequest
              => active_generations[c] \in Running(c)

\* C1's case: a generation is running for a character while another speak
\* or chat request for the same character is held at the lock
C1_Witness ==
    \E c \in Names : \E r \in Running(c) : \E w \in Requests :
        /\ req[w].name = c
        /\ req[w].kind \in {"speak", "chat"}
        /\ req[w].pc = "waiting"

\* the positions of c's broadcast log holding frame f
Positions(c, f) == { p \in DOMAIN sent[c] : sent[c][p] = f }

\* C2 (as claimed): when a speak or chat request r reaches the coordinator
\* while a generation i of the same character is active, then by the time
\* r's first frame is broadcast, i has been cancelled (it did not run to
\* completion on its own) and r has sent stop_stream before that frame.
C2_NewRequestPreemptsIncumbent ==
    \A r \in Requests :
        LET c == req[r].name
            i == req[r].incumbent
        IN  ( /\ req[r].kind \in {"speak", "chat"}
              /\ i # NoRequest
              /\ Positions(c, Frame("stream_start", r)) # {} )
            => /\ gen[i].cancelled
               /\ \E q \in Positions(c, Frame("stop_stream", r)) :
                    \A p \in Positions(c, Frame("stream_start", r)) : q < p

\* C3 (as claimed): a stop request that reaches the coordinator while a
\* generation of the character is active cancels it, and answers
\* was_active = true with the spoken text accumulated so far.
C3_StopCancelsActiveGeneration ==
    \A r \in Requests :
        ( /\ req[r].kind = "stop"
          /\ req[r].pc = "done"
          /\ req[r].incumbent # NoRequest )
        => /\ gen[req[r].incumbent].cancelled
           /\ req[r].was_active
           /\ req[r].spoken_text # "None"

\* C4: a stop request that has returned has sent exactly one stop_stream
\* frame to its character, a stop request that has not returned has sent
\* none, and none to any other character; while it holds or awaits the
\* lock it has sent none (the frame follows the release of the lock).
C4_StopSendsOneStopStreamAfterLock ==
    \A r \in Requests :
        req[r].kind = "stop" =>
            /\ \A c \in Names :
                 Cardinality(Positions(c, Frame("stop_stream", r)))
                     = IF c = req[r].name /\ req[r].pc = "done" THEN 1 ELSE 0
            /\ req[r].pc \in {"stop_send", "done"}
                 => /\ generation_locks[req[r].name].holder # r
                    /\ \A k \in DOMAIN generation_locks[req[r].name].waiters :
                         generation_locks[req[r].name].waiters[k] # r

\* C4's case: two stop requests have returned, one that came while a
\* generation was active and one that came while none was
C4_Witness ==
    \E r, s \in Requests :
        /\ req[r].kind = "stop" /\ req[r].pc = "done"
        /\ req[r].incumbent # NoRequest
        /\ req[s].kind = "stop" /\ req[s].pc = "done"
        /\ req[s].incumbent = NoRequest

(***************************************************************************)
(* Claims about the conversation memory (checked under SpecMemory)         *)
(***************************************************************************)
\* C9 (as claimed): the step with which a chat handler whose pipeline has
\* its cancel flag set leaves the recording of the assistant's message with
\* success appends to the character's memory exactly one message, an assistant
\* message with interrupted = true, the spoken text (possibly empty) as
\* content and the full LLM text as generated_text, and records the pending
\* entry (index of that message, persist flag, db id) for the character.
C9_CancelledChatRecordsInterruptedMessage ==
    [][ \A t \in Chats :
          ( /\ chat[t].pc \in {"assistant", "assistant_mem"}
            /\ chat'[t].pc = "done"
            /\ chat'[t].status = "ok"
            /\ chat[t].cancelled )
          => LET c == chat[t].name IN
               /\ conversation_memory'[c] =
                    Append(conversation_memory[c],
                           Message("assistant", chat[t].spoken, TRUE,
                                   chat[t].response_text))
               /\ pending_interrupted'[c] =
                    Entry(Len(conversation_memory[c]), chat[t].persist,
                          IF chat[t].persist THEN chat[t].db_id ELSE NoRow)
      ]_vars

\* C10 (as claimed): when the handler of a stream_stopped{spoken_text} event finds a
\* pending entry for its character, the step up to its first suspension
\* sets the content of the memory message at the recorded index to
\* spoken_text and changes no other message of any character; without a
\* durable copy to update it removes the character's pending entry there,
\* otherwise its next step sets the content of the recorded row to
\* spoken_text, changes no other row and no message in memory, and removes
\* the character's pending entry. No other character's entry changes.
C10_StreamStoppedReconciles ==
    [][ \A o \in Overlays :
          LET h == sockets[o]
              c == h.name
              e == pending_interrupted[c]
              others == \A d \in Names \ {c} :
                          pending_interrupted'[d] = pending_interrupted[d]
          IN  /\ ( /\ h.pc = "stream_stopped"
                   /\ sockets'[o].pc # "stream_stopped"
                   /\ e.set )
                 => /\ e.msg_idx < Len(conversation_memory[c])
                    /\ conversation_memory' = [conversation_memory EXCEPT
                         ![c][e.msg_idx + 1].content = h.actual_text]
                    /\ db' = db
                    /\ others
                    /\ IF e.persist /\ e.db_id # NoRow
                         THEN sockets'[o].pc = "db"
                         ELSE ~pending_interrupted'[c].set
              /\ ( h.pc = "db" /\ sockets'[o].pc # "db" )
                 => /\ h.db_id \in DOMAIN db
                    /\ db' = [db EXCEPT ![h.db_id].content = h.actual_text]
                    /\ db[h.db_id].character_name = c
                    /\ conversation_memory' = conversation_memory
                    /\ others
                    /\ ~pending_interrupted'[c].set
      ]_vars

\* a step of the stream_stopped branch of some overlay's handler
StreamStoppedStep ==
    \E o \in Overlays :
        /\ sockets[o].pc \in {"stream_stopped", "db"}
        /\ sockets'[o] # sockets[o]

\* C11 (as claimed): a step of a stream_stopped handler changes, in memory
\* and among the rows, only assistant messages with interrupted = true, and
\* only their content; and the step with which a memory clear empties a
\* character's memory leaves no pending entry for that character.
C11_StaleEntryIsHarmless ==
    [][ /\ StreamStoppedStep =>
            /\ \A c \in Names :
                 /\ Len(conversation_memory'[c]) = Len(conversation_memory[c])
                 /\ \A i \in DOMAIN conversation_memory[c] :
                      conversation_memory'[c][i] # conversation_memory[c][i]
                        => /\ conversation_memory[c][i].role = "assistant"
                           /\ conversation_memory[c][i].interrupted
                           /\ conversation_memory'[c][i] =
                                [conversation_memory[c][i] EXCEPT
                                   !.content = conversation_memory'[c][i].content]
            /\ Len(db') = Len(db)
            /\ \A i \in DOMAIN db :
                 db'[i] # db[i]
                   => /\ db[i].role = "assistant"
                      /\ db[i].interrupted
                      /\ db'[i] = [db[i] EXCEPT !.content = db'[i].content]
        /\ \A k \in Clears :
             (clears[k].pc = "idle" /\ clears'[k].pc # "idle")
               => ~pending_interrupted'[clears'[k].name].set
      ]_vars

\* the durable messages of character c, in the order of their rows
RowsOf(c) ==
    LET rows == SelectSeq(db, LAMBDA r : r.character_name = c)
    IN  [i \in 1..Len(rows) |->
            Message(rows[i].role, rows[i].content, rows[i].interrupted,
                    rows[i].generated_text)]

\* no append, interrupted-message update or clear of character c is under
\* way: each one begun has completed
Settled(c) ==
    /\ \A t \in Chats :
          chat[t].name = c => chat[t].pc \notin {"user_mem", "assistant_mem"}
    /\ \A o \in Overlays : sockets[o].name = c => sockets[o].pc # "db"
    /\ \A k \in Clears : clears[k].name = c => clears[k].pc # "rows"

\* C13 (as claimed): for every character with persist_memory = true, once
\* every append, interrupted-message update and clear begun for it has
\* completed, the in-memory message list equals the list of its durable
\* rows: same messages, same order, same role, content, interrupted and
\* generated_text.
C13_MemoryAgreesWithRows ==
    \A c \in Names :
        (persist_memory[c] /\ Settled(c))
            => conversation_memory[c] = RowsOf(c)

(***************************************************************************)
(* Claims about the connection registry (checked under SpecRegistry and    *)
(* SpecLiveness)                                                           *)
(***************************************************************************)
\* the sessions in a list
Range(list) == { list[i] : i \in DOMAIN list }

\* C14: a send_to_channel that finds no session for the character returns
\* false and changes nothing in the registry; otherwise, when it returns,
\* a write has been attempted on every session registered at call time, in
\* order, the character's session list is the list before the return
\* without exactly the sessions whose write failed, no other character's
\* list has changed, and the call returns true if and only if the
\* character's list is not empty then.
C14_SendRemovesExactlyFailedSessions ==
    [][ \A t \in Callers :
          LET q == callers[t]
              c == q.name
          IN  /\ ( q.pc = "send" /\ callers'[t] # q /\ connections[c] = << >> )
                 => /\ ~callers'[t].result
                    /\ connections' = connections
                    /\ channel_state' = channel_state
                    /\ last_pong' = last_pong
              /\ ( q.pc = "write" /\ callers'[t] # q /\ Len(q.todo) = 1 )
                 => LET s == Head(q.todo)
                        failed == Range(q.failed)
                                    \cup (IF Writable(s) THEN {} ELSE {s})
                    IN  /\ Append(q.written, s) = q.snapshot
                        /\ connections' = [connections EXCEPT ![c] =
                             SelectSeq(@, LAMBDA x : x \notin failed)]
                        /\ callers'[t].result <=> connections'[c] # << >>
      ]_vars

\* C14's case: a send has returned true after it removed a session whose
\* write failed, while another session of the character stayed registered
C14_Witness ==
    \E t \in Callers : \E s, o \in Sessions :
        /\ callers[t].pc \in {"send", "done"}
        /\ callers[t].k > 0
        /\ callers[t].result
        /\ websockets[s].name = callers[t].name
        /\ websockets[s].state = "closed"
        /\ s \notin Range(connections[callers[t].name])
        /\ o \in Range(connections[callers[t].name])

\* C15 (as claimed): the step that registers an overlay session records a
\* last-pong time for it and leaves the character's channel state at
\* {playing: false, streaming: false}.
C15_RegistrationRecordsPongAndResetsState ==
    [][ \A s \in Sessions :
          ( websockets[s].state = "none" /\ websockets'[s].state = "open" )
          => /\ last_pong'[s] # NoPong
             /\ channel_state'[websockets'[s].name] = NewState
      ]_vars

\* C16 (as claimed): when a round of the liveness task ends, every session
\* that had not been heard from for longer than the stale threshold is
\* closed and is in no session list.
C16_StaleSessionsAreEvicted ==
    [][ ( ping'.pc = "sleep" /\ ping' # ping )
        => \A s \in Sessions :
             ( /\ websockets'[s].state \in {"open", "closed"}
               /\ websockets'[s].heard < now' - STALE_THRESHOLD )
             => /\ websockets'[s].state = "closed"
                /\ \A c \in Names : s \notin Range(connections'[c])
      ]_vars

\* the step is an overlay's stream_ended / stream_stopped event
IsStreamEvent == callers' = callers /\ connections' = connections

\* the step is the return of a successful write of this frame to c
IsWritten(frame, c) ==
    \E t \in Callers :
        /\ callers[t].pc = "write" /\ callers'[t].pc # "write"
        /\ callers[t].name = c
        /\ FramesOf(callers[t].op)[callers[t].k] = frame
        /\ callers'[t].result

\* C17 (as claimed): the streaming flag of a character becomes true only
\* with a successful write of stream_start, and changes from true to false
\* only with a stream_ended / stream_stopped event of an overlay.
C17_OnlyOverlayEventsClearStreaming ==
    [][ \A c \in Names :
          /\ ( ~channel_state[c].streaming /\ channel_state'[c].streaming )
             => IsWritten("stream_start", c)
          /\ ( channel_state[c].streaming /\ ~channel_state'[c].streaming )
             => IsStreamEvent
      ]_vars

\* C17 (amended): the streaming flag of a character becomes true only with
\* a successful write of stream_start, and changes from true to false only
\* with a stream_ended / stream_stopped event of an overlay, with a
\* successful write of stop_stream, or when the channel state is discarded
\* with the character's last session; a write of stream_end leaves it.
C17_StreamingClearedByEventStopOrLastSession ==
    [][ \A c \in Names :
          /\ ( ~channel_state[c].streaming /\ channel_state'[c].streaming )
             => IsWritten("stream_start", c)
          /\ ( channel_state[c].streaming /\ ~channel_state'[c].streaming )
             => \/ IsStreamEvent
                \/ IsWritten("stop_stream", c)
                \/ ( ~channel_state'[c].present /\ connections'[c] = << >> )
      ]_vars

\* C17's case: a speak request has written stream_end with success and the
\* streaming flag of its character is still set
C17_Witness ==
    \E t \in Callers :
        /\ callers[t].op = "speak" /\ callers[t].pc = "done"
        /\ callers[t].result /\ ~callers[t].missed
        /\ channel_state[callers[t].name].streaming

\* C18 (as claimed): a speak request one of whose sends found no session
\* left for the character does not complete with success.
C18_GenerationFailsWithoutSessions ==
    \A t \in Callers :
        ( callers[t].op = "speak" /\ callers[t].missed )
            => callers[t].status # "ok"

(***************************************************************************)
(* Claims about the TTS Streamer (checked under SpecStreamer)              *)
(***************************************************************************)
\* the hook sequence h is [text_start] audio_start (word_timing|audio_chunk)*
\* audio_end [text_end], the text hooks present exactly when captions is true
WellFramed(h, captions) ==
    LET n == Len(h)
        k == IF captions THEN 1 ELSE 0
    IN  /\ n >= 2 + 2 * k
        /\ captions => (h[1] = "text_start" /\ h[n] = "text_end")
        /\ h[k + 1] = "audio_start"
        /\ h[n - k] = "audio_end"
        /\ \A i \in (k + 2)..(n - k - 1) :
              /\ h[i] \in {"word_timing", "audio_chunk"}
              /\ (h[i] = "word_timing") => captions

\* C5: when stream() returns without error and without cancellation, the
\* hooks were invoked as text-start (iff show_text), audio-start, word-timing
\* and audio-chunk calls, audio-end, text-end (iff show_text), and word-timing
\* was never invoked with show_text false.
C5_CompletedStreamIsWellFramed ==
    (streamer.pc = "returned" /\ ~streamer.cancelled)
        => WellFramed(hooks, streamer.show_text)

\* C5 witness: a captioned stream returned normally after both word timing
\* and audio were forwarded
C5_Witness ==
    /\ streamer.pc = "returned" /\ ~streamer.cancelled /\ streamer.show_text
    /\ \E i, j \in DOMAIN hooks : hooks[i] = "word_timing"
                                  /\ hooks[j] = "audio_chunk"

\* every invocation of hook open in h is followed by an invocation of close
Closes(h, open, close) ==
    \A i \in DOMAIN h :
        h[i] = open => \E j \in DOMAIN h : j > i /\ h[j] = close

\* C7: when stream() exits by raising, every text-start it invoked has been
\* followed by a text-end and every audio-start by an audio-end.
C7_RaisingStreamClosesOverlay ==
    streamer.pc = "raised"
        => /\ Closes(hooks, "text_start", "text_end")
           /\ Closes(hooks, "audio_start", "audio_end")

\* C7 witness: stream() raised after it had started both text and audio
C7_Witness ==
    /\ streamer.pc = "raised"
    /\ \E i, j \in DOMAIN hooks : hooks[i] = "text_start"
                                  /\ hooks[j] = "audio_start"

\* C8 (as claimed): when cancel() is called while stream() is running and
\* nothing else fails, stream() does not exit by raising.
C8_CancelledStreamReturnsNormally ==
    (cancel_pc # "idle" /\ ~faulted) => streamer.pc # "raised"


(***************************************************************************)
(* Claims about wish sessions (checked under SpecSanta)                    *)
(***************************************************************************)
\* wisher t returns from start_session in this step
StartReturns(t) == wishers[t].pc = "start" /\ wishers'[t].pc # "start"

\* C19: at most one wish session is active: a session takes the place of
\* another one only when that one is complete, and a start_session called
\* while a session is not complete returns False and leaves the session's
\* data and the cancelled flag as they are.
C19_OneActiveWishSession ==
    [][/\ wish_session'.session_id # wish_session.session_id
            => ~is_active(wish_session)
       /\ \A t \in Wishers :
            StartReturns(t) /\ is_active(wish_session)
            => /\ wishers'[t].result = "rejected"
               /\ wish_session' = wish_session
               /\ wish_cancelled' = wish_cancelled]_vars

\* a redemption that passed the handler's check was turned down by
\* start_session, a session being active
C19_Witness ==
    /\ is_active(wish_session)
    /\ \E t \in Wishers :
         /\ wishers[t].result = "rejected"
         /\ wish_session.session_id # t

\* the state changes of section 4.I that need no cancel and no timeout
TurnChanges ==
    {<<"idle", "processing">>,
     <<"processing", "ask_followup">>,
     <<"processing", "await_chat">>,
     <<"processing", "complete">>,
     <<"ask_followup", "processing">>,
     <<"await_chat", "processing">>}

\* this step is cancel_session completing the session
CancelStep ==
    \E t \in Wishers : wishers[t].pc = "idle" /\ wishers'[t].pc = "notify"

\* C20: every change of a wish session's state is idle -> processing,
\* processing -> ask_followup | await_chat | complete, ask_followup ->
\* processing, ask_followup -> complete by the timeout, await_chat ->
\* processing, or any state but complete -> complete by cancel; a new
\* session is in processing after the step that created it.
C20_StateChangesFollowTheMachine ==
    [][IF wish_session'.session_id # wish_session.session_id
       THEN wish_session'.state = "processing"
       ELSE wish_session'.state # wish_session.state
            => \/ <<wish_session.state, wish_session'.state>> \in TurnChanges
               \/ /\ wish_session.state = "ask_followup"
                  /\ wish_session'.state = "complete"
                  /\ wish_session'.outcome = "timeout"
               \/ /\ wish_session.state # "complete"
                  /\ wish_session'.state = "complete"
                  /\ CancelStep]_vars


\* C21: followup_count never exceeds max_followups; when the model answers
\* ask_followup while followup_count = max_followups, the session goes to
\* await_chat with the chat-vote waiter and followup_count stays as it is.
C21_FollowupsAreBounded ==
    /\ [](wish_session.followup_count <= max_followups)
    /\ [][\A t \in Wishers :
            (/\ wishers[t].pc = "speak"
             /\ wishers'[t].pc # "speak"
             /\ wishers[t].action = "ask_followup"
             /\ ~wish_cancelled
             /\ wish_session.followup_count = max_followups)
            => /\ wish_session'.state = "await_chat"
               /\ wishers'[t].pc = "vote"
               /\ wish_session'.followup_count
                    = wish_session.followup_count]_vars


\* C24: when force_verdict(v), v grant or deny, applied to an active
\* session returns True, the session is complete with outcome grant or
\* deny, whatever the model answered in the turn.
C24_ForcedVerdictCompletes ==
    [][\A t \in Wishers :
         (/\ wishers'[t].kind = "verdict"
          /\ wishers[t].pc # "finalize"
          /\ wishers'[t].pc = "finalize")
         => /\ wish_session'.state = "complete"
            /\ wish_session'.outcome \in {"grant", "deny"}]_vars

\* wisher t, not cancelled, goes on in this step from the utterance of a
\* reply that held no JSON object
HandlesPlainText(t) ==
    /\ wishers[t].pc = "speak"
    /\ wishers'[t].pc # "speak"
    /\ wishers[t].raw = "text"
    /\ ~wish_cancelled

\* C25 (as claimed): a reply that is neither JSON nor holds a JSON object
\* aborts the turn: the session ends in complete with outcome error and
\* does not go on into a chat vote.
C25_UnparsableReplyAbortsTurn ==
    [][\A t \in Wishers :
         HandlesPlainText(t)
         => /\ wish_session'.state = "complete"
            /\ wish_session'.outcome = "error"
            /\ wishers'[t].pc # "vote"]_vars

\* C25 (amended): a reply that is neither JSON nor holds a JSON object is
\* spoken as it is and handled as the action await_chat: the session goes
\* to await_chat and the chat-vote waiter runs; the outcome is left alone.
C25_UnparsableReplyAwaitsChat ==
    [][\A t \in Wishers :
         HandlesPlainText(t)
         => /\ wish_session'.state = "await_chat"
            /\ wish_session'.outcome = wish_session.outcome
            /\ wishers'[t].pc = "vote"]_vars

\* a chat vote runs after a reply that held no JSON object
C25_Witness ==
    \E t \in Wishers :
        /\ wishers[t].pc = "vote"
        /\ wishers[t].raw = "text"
        /\ wish_session.state = "await_chat"

\* wisher t's request to cancel is handled in this step
CancelRequested(t) == wishers[t].pc = "idle" /\ wishers'[t].kind = "cancel"

AtRest == \A t \in Wishers : wishers[t].pc \in {"idle", "done"}

\* C27: a wish session that has reached complete, by whatever path, is
\* eventually persisted: once no task is left to run, its row holds the
\* final state, outcome, followup_count and conversation.
C27_TerminalSessionsArePersisted ==
    (wish_session.state = "complete" /\ AtRest)
    => santa_rows[wish_session.session_id] = Finalized(wish_session)

(***************************************************************************)
(* Claims about the followup waiter (checked under SpecFollowup)           *)
(***************************************************************************)
\* when the latest of the redeemer's messages so far arrived
LastReplyTime == replies[Len(replies)].time

\* C22: once the first message has arrived, the collection ends only when
\* debounce_seconds have passed without a message since the most recent
\* one, and the collected messages, joined by single spaces, are the user
\* message of the one turn that follows.
C22_DebounceCountsFromLatestMessage ==
    waiter.pc = "turn"
    => /\ waiter.ended - LastReplyTime >= debounce_seconds
       /\ waiter.user_message = Join(waiter.collected_messages)


(***************************************************************************)
(* Claims about the speech lock (checked under SpecSpeech)                 *)
(***************************************************************************)
\* the _speak calls between their speak request and the end of their wait
Speaking == { t \in Speakers : speakers[t].pc \in {"post", "sleep"} }

\* C23: no two utterances of the wish session overlap: at most one _speak
\* call is between issuing its speak request and the end of its
\* estimated-duration wait.
C23_UtterancesDoNotOverlap == Cardinality(Speaking) <= 1

\* one call sleeps out its utterance while another one, from another
\* place, waits for the lock
C23_Witness ==
    \E t, u \in Speakers :
        /\ speakers[t].pc = "sleep"
        /\ speakers[u].pc = "lock"
        /\ speakers[t].source # speakers[u].source



(***************************************************************************)
(* Retries of the OpenRouter client                                        *)
(***************************************************************************)
\* the upstream attempts the running call has made so far
AttemptsMade == IF llm_call.pc = "idle" THEN 0 ELSE llm_call.attempt + 1

\* C28: stream_chat and chat make at most 3 upstream attempts per call; a
\* retryable failure (status 429/500/502/503/504, an HTTP error, an error
\* code rate_limit_exceeded or server_error) on attempt k < 3 is followed
\* by a wait of 1s * 2^(k-1) and another attempt, a failure that is not
\* retryable raises at once, and a failure on the 3rd attempt raises.
C28_RetriesAreBoundedWithBackoff ==
    /\ AttemptsMade <= 3
    /\ Len(llm_call.failures) <= AttemptsMade
    /\ Len(llm_call.failures) >= AttemptsMade - 1
    /\ \A k \in 1..Len(llm_call.failures) :
         LET f == llm_call.failures[k]
             transient ==
                 \/ f.class = "status" /\ f.status \in {429, 500, 502, 503, 504}
                 \/ f.class = "http"
                 \/ f.class = "code" /\ f.code \in {"rate_limit_exceeded", "server_error"}
         IN  IF transient /\ k < 3
             THEN /\ Len(llm_call.slept) >= k
                  /\ llm_call.slept[k] = (IF k = 1 THEN 1 ELSE 2)
                  /\ \/ k = AttemptsMade /\ llm_call.pc = "sleep"
                     \/ k < AttemptsMade
             ELSE /\ k = AttemptsMade
                  /\ llm_call.pc = "raised"
                  /\ Len(llm_call.slept) = k - 1

\* a call that failed twice with retryable failures, slept 1s and 2s, and
\* whose third attempt failed and raised
C28_Witness ==
    /\ llm_call.pc = "raised"
    /\ Len(llm_call.failures) = 3
    /\ llm_call.slept = <<1, 2>>
    /\ llm_call.failures[1].class = "status"
    /\ llm_call.failures[2].class = "code"
    /\ llm_call.failures[3].class = "http"



(***************************************************************************)
(* The Cartesia receive loop                                               *)
(***************************************************************************)
\* everything the loop has put on the queue so far
CtPut == ct_out \o ct_queue

\* the frame the loop has just handled
CtLastFrame == ct_frames[Len(ct_frames)]

\* C30 as stated: the client holds received audio until a timing frame
\* arrives, so the handling of an audio chunk frame puts nothing on the
\* output queue and the audio waits for the next timestamps or done frame
C30_AudioHeldUntilTiming ==
    [][(ct_frames' # ct_frames /\ ct_frames'[Len(ct_frames')].type = "chunk")
          => ct_queue' = ct_queue]_vars

\* what the frames received so far put on the queue when audio is never
\* held: a chunk of audio alone, a chunk of words alone, the end
RECURSIVE PutOf(_)
PutOf(received) ==
    IF received = << >> THEN << >>
    ELSE LET frame == received[Len(received)]
             before == PutOf(SubSeq(received, 1, Len(received) - 1))
             timed == IF Len(frame.words) < frame.times
                      THEN frame.words
                      ELSE SubSeq(frame.words, 1, frame.times)
         IN  CASE frame.type = "chunk" /\ frame.data # "" ->
                    Append(before, [audio |-> <<frame.data>>, words |-> << >>])
               [] frame.type = "timestamps" /\ timed # << >> ->
                    Append(before, [audio |-> << >>, words |-> timed])
               [] frame.type = "done" -> Append(before, EndMarker)
               [] frame.type = "error" -> before \o <<EndMarker, EndMarker>>
               [] OTHER -> before

\* C30: the Cartesia client does not hold audio: every non-empty audio
\* chunk is put on the output queue with no words as soon as its frame is
\* received, every timestamps frame with at least one timed word is put as
\* a chunk of those words with no audio, in the order of the frames, and
\* the done frame finds nothing pending and puts only the end of the stream
C30_AudioFlowsAtOnce ==
    /\ ct.pending_audio = << >>
    /\ ct.pending_words = << >>
    /\ \/ CtPut = PutOf(ct_frames)
       \/ CtPut = Append(PutOf(ct_frames), EndMarker)

\* audio was received and put on the queue before any timing frame; the
\* timing frame and the done frame came later
C30_Witness ==
    /\ Len(ct_frames) = 3
    /\ ct_frames[1].type = "chunk" /\ ct_frames[1].data = "a"
    /\ ct_frames[2].type = "timestamps"
    /\ ct_frames[3].type = "done"
    /\ CtPut = <<[audio |-> <<"a">>, words |-> << >>],
                 [audio |-> << >>, words |-> <<"hi", "there">>],
                 EndMarker>>


(***************************************************************************)
(* Word reconstruction across upstream chunks (checked under SpecWords)    *)
(***************************************************************************)
\* the part of the text the upstream has aligned so far
Aligned == SubSeq(el.text, 1, el.pos)

\* the aligned part ends inside a word
EndsMidWord == el.pos > 0 /\ el.text[el.pos] # " "

\* the words of the chunks queued so far that were not forwarded yet
RECURSIVE QueuedWords(_)
QueuedWords(i) ==
    IF i > Len(el_queue) THEN << >>
    ELSE [k \in DOMAIN el_queue[i].words |-> el_queue[i].words[k].word]
             \o QueuedWords(i + 1)

\* the tokens that have a letter or a digit
RECURSIVE Spoken(_)
Spoken(tokens) ==
    IF tokens = << >> THEN << >>
    ELSE (IF \E i \in DOMAIN Head(tokens) : Head(tokens)[i] = "a"
            THEN << Head(tokens) >> ELSE << >>) \o Spoken(Tail(tokens))

\* the tokens of the aligned part that are complete: all of them after the
\* terminal marker, all but the one under way before it
CompleteTokens ==
    LET tokens == WordsOf(Aligned)
    IN  IF EndsMidWord /\ ~el.final
          THEN SubSeq(tokens, 1, Len(tokens) - 1)
          ELSE tokens

\* the last chunk put on the queue is a timing-only chunk of the word
LastChunkIsFlushOf(word) ==
    IF el_queue # << >>
      THEN LET chunk == el_queue[Len(el_queue)]
           IN  /\ chunk.lo = chunk.hi
               /\ Len(chunk.words) = 1
               /\ chunk.words[1].word = word
      ELSE /\ frames # << >>
           /\ frames[Len(frames)].type = "word_timing"
           /\ Len(frames[Len(frames)].words) = 1
           /\ frames[Len(frames)].words[1].word = word

\* C29: ElevenLabs word reconstruction is independent of chunking: however
\* the character alignment is split into chunks, a chunk ending mid-word
\* leaves that word pending, a chunk ending with white space leaves none,
\* the words emitted are in order and each exactly once the tokens of the
\* text that have an alphanumeric character, and a word still pending at
\* the terminal marker is flushed as a final timing-only chunk.
C29_WordsIndependentOfChunking ==
    LET tokens == WordsOf(Aligned)
    IN  /\ (~el.final /\ EndsMidWord)
              => el.pending_word.word = tokens[Len(tokens)]
        /\ (el.final \/ ~EndsMidWord) => el.pending_word.word = << >>
        /\ TimedWords(1) \o QueuedWords(1) = Spoken(CompleteTokens)
        /\ (el.final /\ EndsMidWord /\ Spoken(<<tokens[Len(tokens)]>>) # << >>)
              => LastChunkIsFlushOf(tokens[Len(tokens)])

\* the one-word text "aaa" came in three chunks of one character, each
\* ending mid-word; the terminal marker flushed the word, and the three
\* audio frames and the word's timing frame were forwarded
C29_Witness ==
    /\ el.final
    /\ el.text = <<"a", "a", "a">>
    /\ el_queue = << >>
    /\ Len(frames) = 4
    /\ TimedWords(1) = << <<"a", "a", "a">> >>



(***************************************************************************)
(* Speed of the voice                                                      *)
(***************************************************************************)
\* the nearest bound of the provider's range
NearestSpeed(provider, speed) ==
    LET lo == IF provider = "elevenlabs" THEN 7 ELSE 6
        hi == IF provider = "elevenlabs" THEN 12 ELSE 15
    IN  IF speed < lo THEN lo ELSE IF speed > hi THEN hi ELSE speed

\* C31: for both providers a generation whose speed is outside the
\* provider's range (ElevenLabs 0.7 to 1.2, Cartesia 0.6 to 1.5) is not
\* rejected: the streamer connects, and the speed sent upstream is the
\* nearest bound of the range
C31_SpeedIsClampedNotRejected ==
    /\ voice.pc # "rejected"
    /\ voice.sent # NoSpeed
         => voice.sent = NearestSpeed(voice.provider, voice.speed)



(***************************************************************************)
(* Optimistic concurrency of the character update                          *)
(***************************************************************************)
\* C32: of two update requests for the same character that carry the same
\* expected_updated_at token at most one is applied, the other is answered
\* with the conflict; and an update whose token differs from the stored
\* updated_at never modifies the character
C32_OneUpdatePerToken ==
    /\ \A r1, r2 \in Updaters :
          ( /\ r1 # r2
            /\ updaters[r1].expected_updated_at # NoStamp
            /\ updaters[r1].expected_updated_at = updaters[r2].expected_updated_at
            /\ updaters[r1].pc = "applied" )
          => updaters[r2].pc # "applied"
    /\ \A r \in Updaters :
          ( /\ updaters[r].pc = "read"
            /\ updaters[r].expected_updated_at # NoStamp
            /\ updaters[r].expected_updated_at # updaters[r].read )
          => \A k \in DOMAIN character_row.written_by :
                character_row.written_by[k] # r


\* C33: complete is absorbing for a wish session: once the session's state
\* is complete, no later step (a chat-vote or followup waiter that wakes up
\* after a forced verdict, a dashboard message or a cancel included)
\* changes that session's state, outcome or conversation.
C33_CompleteIsAbsorbing ==
    [][(/\ wish_session.state = "complete"
        /\ wish_session'.session_id = wish_session.session_id)
          => /\ wish_session'.state = "complete"
             /\ wish_session'.outcome = wish_session.outcome
             /\ wish_session'.conversation = wish_session.conversation]_vars


IterEnded == ct_out # << >> /\ ct_out[Len(ct_out)] = EndMarker

\* C35: closing an upstream TTS session forces its chunk iterator to
\* terminate: after close() is called while a consumer is blocked in
\* iter_audio_with_timing(), that iteration eventually ends without any
\* cancellation from outside; and a second close() is a no-op that does
\* not raise.
C35_CloseEndsIteration ==
    /\ (ct.closed /\ ~IterEnded) ~> IterEnded
    /\ [][(ct.closes >= 1 /\ ct'.closes > ct.closes)
            => /\ ~ct'.close_raised
               /\ ct'.pc = ct.pc /\ ct'.ws = ct.ws
               /\ ct_queue' = ct_queue]_vars


(***************************************************************************)
(* Claims about the receive task at the exit of stream() (SpecStreamer)    *)
(***************************************************************************)
\* stream() has exited, by return or by raising
StreamExited == streamer.pc \in {"returned", "raised"}

\* the receive task exists and has not ended: it waits on the chunk queue or
\* is inside an overlay hook
RxAlive == rx \in {"waiting", "audio"}

\* C36: whenever stream() has exited (by return, by cancellation or by an
\* exception from send_text or from the token source), the receive task it
\* spawned has terminated: none remains blocked on the chunk queue and none
\* can still invoke an overlay hook
C36_ExitLeavesNoReceiveTask == StreamExited => ~RxAlive


(***************************************************************************)
(* Claims about the waiters of a wish session (SpecSanta)                  *)
(***************************************************************************)
\* the task of redemption t sleeps in _wait_for_followup or in
\* _wait_for_chat_vote of the session it started
Sleeps(t) ==
    /\ wishers[t].kind = "redeem"
    /\ wishers[t].pc \in {"followup", "debounce", "vote"}

\* C37: a waiter of a session that was cancelled or completed never drives
\* a turn on a later session: when the waiter of session A wakes and calls
\* _process_turn, the turn does not begin on a session other than A
C37_WaiterStaysWithItsSession ==
    [][\A t \in Wishers :
         (Sleeps(t) /\ wishers'[t].pc = "llm")
            => wish_session.session_id = t]_vars


(***************************************************************************)
(* Claims about the channel-point reward (SpecSantaLive)                   *)
(***************************************************************************)
\* C38: the reward that was disabled when a redemption started a wish
\* session is eventually re-enabled after the session reaches complete, on
\* every completion path (grant or deny by the model, followup timeout,
\* error, forced verdict, cancel)
C38_RewardComesBack ==
    (wish_session.state = "complete") ~> reward_enabled


(***************************************************************************)
(* Claims about the history of overlapping chats (SpecMemory)              *)
(***************************************************************************)
\* no DELETE .../memory request has touched the memory
NothingCleared == \A k \in Clears : clears[k].pc = "idle"

\* C39: for a character with memory enabled, when two chat requests for it
\* overlap and the lock serializes them, the history the second one sends
\* to the LLM contains the user and assistant messages the first one
\* recorded: when the second enters the lock, its history has every
\* message that is in the character's memory
C39_SecondChatSeesTheFirst ==
    [][\A t \in Chats :
         (chat[t].pc = "wait" /\ chat'[t].pc = "run" /\ NothingCleared)
            => Len(chat[t].history)
                 = Len(conversation_memory[chat[t].name])]_vars


(***************************************************************************)
(* Claims about the tokens of a retried stream (SpecRetry)                 *)
(***************************************************************************)
\* C40: the fragments a consumer receives from one stream_chat call are the
\* output of a single upstream attempt: after a retryable failure in the
\* middle of a stream the consumer does not receive fragments of the retry
\* on top of those already yielded
C40_TokensComeFromOneAttempt ==
    \A i, j \in 1..Len(llm_call.sources) :
        llm_call.sources[i] = llm_call.sources[j]

====
